---- MODULE Spec2Model ----
(***************************************************************************)
(* A model of ghostwriter's word-morphing engine (src/ghostwriter/morph.py) *)
(* and of the processes that call it.                                      *)
(*                                                                         *)
(* Text is a sequence of one-character strings, so that str.lower() and    *)
(* the regular expression ^[a-z]+$ are computed, not assumed.  Floats are  *)
(* fixed-point integers: a vector component counts thousandths, a score    *)
(* counts 1e-5 units.  The embedding space, the tagger, WordNet, the       *)
(* lemmatizer, the inflector and the Unicode database are libraries the    *)
(* engine calls; they are small tables here.                               *)
(***************************************************************************)
EXTENDS Integers, Sequences, FiniteSets, TLC

(***************************************************************************)
(* Bounds of the model                                                     *)
(***************************************************************************)
\* number of threads of one process that call into morph.py
NumThreads == 2
\* largest top_n a caller passes
MaxTopN == 3
\* longest list of words, and of contexts, a caller passes to morph_words
MaxWords == 2

Threads == 1..NumThreads

(***************************************************************************)
(* Optional values (Python's None)                                         *)
(***************************************************************************)
None == [some |-> FALSE]
Some(x) == [some |-> TRUE, val |-> x]

(***************************************************************************)
(* Text                                                                    *)
(***************************************************************************)
UpperChars == <<"A","B","C","D","E","F","G","H","I","J","K","L","M",
                "N","O","P","Q","R","S","T","U","V","W","X","Y","Z">>
LowerChars == <<"a","b","c","d","e","f","g","h","i","j","k","l","m",
                "n","o","p","q","r","s","t","u","v","w","x","y","z">>

\* str.lower() on one character
LowerChar(c) ==
    IF \E i \in DOMAIN UpperChars : UpperChars[i] = c
    THEN LowerChars[CHOOSE i \in DOMAIN UpperChars : UpperChars[i] = c]
    ELSE c

\* str.lower()
Lower(w) == [i \in 1..Len(w) |-> LowerChar(w[i])]

\* _WORD_RE = re.compile(r"^[a-z]+$"); _WORD_RE.match(w)
WordReMatch(w) ==
    /\ Len(w) > 0
    /\ \A i \in 1..Len(w) : \E j \in DOMAIN LowerChars : LowerChars[j] = w[i]

(***************************************************************************)
(* Fixed-point arithmetic standing for float64                             *)
(***************************************************************************)
RECURSIVE SqrtIter(_, _, _)
SqrtIter(n, lo, hi) ==
    IF lo >= hi THEN lo
    ELSE LET mid == (lo + hi + 1) \div 2
         IN  IF mid * mid <= n THEN SqrtIter(n, mid, hi)
             ELSE SqrtIter(n, lo, mid - 1)

\* the integer square root
ISqrt(n) == SqrtIter(n, 0, 46340)

Abs(x) == IF x < 0 THEN -x ELSE x

\* np.dot on two vectors of thousandths: the result counts 1e-6 units
Dot(u, v) == u[1] * v[1] + u[2] * v[2]

\* np.linalg.norm, in thousandths
Norm(v) == ISqrt(Dot(v, v))

VAdd(u, v) == <<u[1] + v[1], u[2] + v[2]>>
VSub(u, v) == <<u[1] - v[1], u[2] - v[2]>>

\* vec /= norm, the quotient in thousandths
VDiv(v, n) == <<(v[1] * 1000) \div n, (v[2] * 1000) \div n>>

\* "norm = np.linalg.norm(v); if norm > 0: v /= norm"
Unit(v) == LET norm == Norm(v) IN IF norm > 0 THEN VDiv(v, norm) ELSE v

\* round(score, 4) of a score in 1e-5 units: to the nearest multiple of
\* 1e-4, a tie to the even one
Round4(s) ==
    LET q == s \div 10
        r == s % 10
    IN  IF r < 5 THEN 10 * q
        ELSE IF r > 5 THEN 10 * (q + 1)
        ELSE IF q % 2 = 0 THEN 10 * q ELSE 10 * (q + 1)

(***************************************************************************)
(* The words of the model                                                  *)
(***************************************************************************)
w_tools == <<"t","o","o","l","s">>
w_Tools == <<"T","o","o","l","s">>
w_tool == <<"t","o","o","l">>
w_hammer == <<"h","a","m","m","e","r">>
w_hammers == <<"h","a","m","m","e","r","s">>
w_axe == <<"a","x","e">>
w_axis == <<"a","x","i","s">>
w_axes == <<"a","x","e","s">>
w_instrument == <<"i","n","s","t","r","u","m","e","n","t">>
w_utensil == <<"u","t","e","n","s","i","l">>
w_profound == <<"p","r","o","f","o","u","n","d">>
w_build == <<"b","u","i","l","d">>
w_coop == <<"c","o","-","o","p">>
w_the == <<"t","h","e">>
w_The == <<"T","h","e">>
w_we == <<"w","e">>
w_nails == <<"n","a","i","l","s">>
w_broke == <<"b","r","o","k","e">>
w_hot == <<"h","o","t">>
w_cold == <<"c","o","l","d">>
w_dog == <<"d","o","g">>
w_dread == <<"d","r","e","a","d">>
w_joy == <<"j","o","y">>
w_Joy == <<"J","o","y">>
w_xyzzy == <<"x","y","z","z","y">>
w_qq == <<"q","q">>

(***************************************************************************)
(* The embedding space (gensim KeyedVectors): the keys in index order and  *)
(* each key's vector, in thousandths.  hot is opposite to cold and to dog,  *)
(* so that a sum can vanish.                                               *)
(***************************************************************************)
VocabKeys == <<w_the, w_tools, w_tool, w_hammer, w_hammers, w_axe, w_axis,
               w_axes, w_instrument, w_profound, w_build, w_coop, w_hot,
               w_cold, w_dog, w_dread, w_joy>>

Vocab == {VocabKeys[i] : i \in DOMAIN VocabKeys}

\* model[key].astype(np.float64)
Vec(k) ==
    CASE k = w_the        -> <<2000, 1000>>
      [] k = w_tools      -> <<3000, 1000>>
      [] k = w_tool       -> <<3000, 1200>>
      [] k = w_hammer     -> <<2800, 1500>>
      [] k = w_hammers    -> <<2700, 1400>>
      [] k = w_axe        -> <<2000, 2500>>
      [] k = w_axis       -> <<1500, 500>>
      [] k = w_axes       -> <<1800, 2000>>
      [] k = w_instrument -> <<2500, 500>>
      [] k = w_profound   -> <<2400, 1600>>
      [] k = w_build      -> <<2600, 1300>>
      [] k = w_coop       -> <<2900, 1100>>
      [] k = w_hot        -> <<1000, 0>>
      [] k = w_cold       -> <<-1000, 0>>
      [] k = w_dog        -> <<-1000, 0>>
      [] k = w_dread      -> <<-500, 3000>>
      [] k = w_joy        -> <<1000, -2500>>

\* "key in model"
InModel(k) == k \in Vocab

\* def _in_vocab(model, word): return word.lower() in model
InVocab(word) == InModel(Lower(word))

(***************************************************************************)
(* NLTK's tagger.  NoTag stands for Python's None where a tag is expected. *)
(***************************************************************************)
NoTag == "-none-"

\* the tag of a token tagged alone: pos_tag([w])[0][1]
IsoTag(w) ==
    LET l == Lower(w)
    IN  CASE l \in {w_tools, w_hammers, w_axes, w_nails} -> "NNS"
          [] l = w_build -> "VB"
          [] l = w_broke -> "VBD"
          [] l = w_the -> "DT"
          [] l = w_we -> "PRP"
          [] l \in {w_hot, w_cold} -> "JJ"
          [] OTHER -> "NN"

\* pos_tag(context): the tag of the i-th token of a tagged sequence; after
\* "we", "hammer" is a verb
SeqTag(context, i) ==
    IF i > 1 /\ Lower(context[i - 1]) = w_we /\ Lower(context[i]) = w_hammer
    THEN "VBP"
    ELSE IsoTag(context[i])

\* a _pos_tag_word that tags although the tagger raises
PosTagWordNoCatch(word, context, taggerUp) ==
    IF context.some /\ Len(context.val) > 0
            /\ \E i \in 1..Len(context.val) : Lower(context.val[i]) = Lower(word)
    THEN LET first == CHOOSE i \in 1..Len(context.val) :
                          /\ Lower(context.val[i]) = Lower(word)
                          /\ \A j \in 1..(i - 1) : Lower(context.val[j]) # Lower(word)
         IN  SeqTag(context.val, first)
    ELSE IsoTag(word)

\* a _pos_tag_word that returns the tag of the last match in the context
PosTagWordLastMatch(word, context, taggerUp) ==
    IF ~taggerUp THEN NoTag
    ELSE IF context.some /\ Len(context.val) > 0
            /\ \E i \in 1..Len(context.val) : Lower(context.val[i]) = Lower(word)
    THEN LET last == CHOOSE i \in 1..Len(context.val) :
                         /\ Lower(context.val[i]) = Lower(word)
                         /\ \A j \in (i + 1)..Len(context.val) :
                                Lower(context.val[j]) # Lower(word)
         IN  SeqTag(context.val, last)
    ELSE IsoTag(word)

\* def _pos_tag_word(word, context=None); taggerUp is false when
\* _ensure_nltk or pos_tag raises
PosTagWord(word, context, taggerUp) ==
    IF ~taggerUp THEN NoTag
    ELSE IF context.some /\ Len(context.val) > 0
            /\ \E i \in 1..Len(context.val) : Lower(context.val[i]) = Lower(word)
    THEN LET first == CHOOSE i \in 1..Len(context.val) :
                          /\ Lower(context.val[i]) = Lower(word)
                          /\ \A j \in 1..(i - 1) : Lower(context.val[j]) # Lower(word)
         IN  SeqTag(context.val, first)
    ELSE IsoTag(word)

NounTags == {"NN", "NNS", "NNP", "NNPS"}
VerbTags == {"VB", "VBD", "VBG", "VBN", "VBP", "VBZ"}
AdjTags == {"JJ", "JJR", "JJS"}
AdvTags == {"RB", "RBR", "RBS"}

NoPos == "-none-"

\* def _ptb_to_wordnet(tag)
PtbToWordnet(tag) ==
    IF tag \in NounTags THEN "n"
    ELSE IF tag \in VerbTags THEN "v"
    ELSE IF tag \in AdjTags THEN "a"
    ELSE IF tag \in AdvTags THEN "r"
    ELSE NoPos

\* def _coarse_pos(tag)
CoarsePos(tag) ==
    IF tag = NoTag THEN NoPos
    ELSE IF tag \in NounTags THEN "noun"
    ELSE IF tag \in VerbTags THEN "verb"
    ELSE IF tag \in AdjTags THEN "adj"
    ELSE IF tag \in AdvTags THEN "adv"
    ELSE NoPos

(***************************************************************************)
(* WordNet                                                                 *)
(***************************************************************************)
\* whether wordnet.synsets(word, pos=wn_pos) is non-empty
HasSynset(word, wn_pos) ==
    CASE wn_pos = "n" -> word \in {w_tool, w_tools, w_hammer, w_hammers, w_axe,
                                   w_axis, w_axes, w_instrument, w_utensil,
                                   w_build, w_dread, w_joy, w_cold}
      [] wn_pos = "v" -> word \in {w_tool, w_hammer, w_axe, w_build, w_dread, w_joy}
      [] wn_pos = "a" -> word \in {w_hot, w_cold, w_profound}
      [] OTHER -> FALSE

\* _COARSE_TO_WN.get(coarse)
CoarseToWn(coarse) ==
    CASE coarse = "noun" -> "n"
      [] coarse = "verb" -> "v"
      [] coarse = "adj" -> "a"
      [] coarse = "adv" -> "r"
      [] OTHER -> NoPos

\* a cross-check that lets every word pass
CanBePosAlways(word, coarse) == TRUE

\* def _can_be_pos(word, coarse)
CanBePos(word, coarse) ==
    IF CoarseToWn(coarse) = NoPos THEN TRUE
    ELSE HasSynset(word, CoarseToWn(coarse))

\* def _wordnet_synonyms(lemma, wn_pos): the single-word lemma names of the
\* synsets of lemma and of their hypernyms, hyponyms and similar-tos
WordnetSynonyms(lemma, wn_pos) ==
    LET names ==
            CASE lemma = w_tool /\ wn_pos = "n" ->
                     {w_tool, w_instrument, w_utensil, w_hammer, w_axe, w_build}
              [] lemma = w_hammer /\ wn_pos = "n" -> {w_hammer, w_tool, w_axe}
              [] lemma = w_hammer /\ wn_pos = "v" -> {w_hammer, w_build}
              [] lemma = w_axe /\ wn_pos = "n" -> {w_axe, w_tool, w_hammer}
              [] lemma = w_axis /\ wn_pos = "n" -> {w_axis, w_instrument}
              [] OTHER -> {}
    IN  {w \in names : w # lemma}

\* def _lemmatize(word, wn_pos): WordNetLemmatizer().lemmatize(word, pos)
Lemmatize(word, wn_pos) ==
    CASE wn_pos = "n" /\ word = w_tools -> w_tool
      [] wn_pos = "n" /\ word = w_hammers -> w_hammer
      [] wn_pos = "n" /\ word = w_axes -> w_axis
      [] wn_pos = "n" /\ word = w_nails -> <<"n","a","i","l">>
      [] OTHER -> word

(***************************************************************************)
(* lemminflect                                                             *)
(***************************************************************************)
\* lemminflect.getInflection(word, tag): the forms, best first; none for a
\* tag that does not inflect
GetInflection(word, tag) ==
    CASE tag \in {"NNS", "VBZ"} ->
             IF word = w_axis THEN <<w_axes>> ELSE <<word \o <<"s">> >>
      [] tag \in {"NN", "VB", "VBP"} -> <<word>>
      [] OTHER -> <<>>

\* an _inflect without fallback: the empty string when lemminflect has no
\* form or raises
InflectNoFallback(word, target_tag, inflectorUp) ==
    IF ~inflectorUp THEN <<>>
    ELSE LET forms == GetInflection(word, target_tag)
         IN  IF Len(forms) > 0 THEN forms[1] ELSE <<>>

\* def _inflect(word, target_tag); inflectorUp is false when lemminflect
\* cannot be imported or raises
Inflect(word, target_tag, inflectorUp) ==
    IF ~inflectorUp THEN word
    ELSE LET forms == GetInflection(word, target_tag)
         IN  IF Len(forms) > 0 THEN forms[1] ELSE word

(***************************************************************************)
(* gensim's nearest-neighbour query                                        *)
(***************************************************************************)
RECURSIVE VSum(_)
VSum(vs) == IF Len(vs) = 0 THEN <<0, 0>> ELSE VAdd(Head(vs), VSum(Tail(vs)))

\* the unit vectors of a list of keys
UnitVecs(keys) == [i \in 1..Len(keys) |-> Unit(Vec(keys[i]))]

\* the indices of idx, the best distance first, a tie to the lower index;
\* dist[i] is the distance of key i
RECURSIVE RankIdx(_, _)
RankIdx(idx, dist) ==
    IF idx = {} THEN <<>>
    ELSE LET best == CHOOSE i \in idx :
                         \A j \in idx : \/ dist[i] > dist[j]
                                        \/ dist[i] = dist[j] /\ i <= j
         IN  <<best>> \o RankIdx(idx \ {best}, dist)

\* the unit vector of every key: gensim's normed vectors
NormedVectors == [i \in DOMAIN VocabKeys |-> Unit(Vec(VocabKeys[i]))]

\* model.most_similar(positive=..., negative=..., topn=...): the keys nearest
\* to the mean of the unit vectors of positive less those of negative, the
\* input keys left out; nothing for topn < 1
MostSimilar(positive, negative, topn) ==
    IF topn < 1 THEN <<>>
    ELSE LET mean == Unit(VSub(VSum(UnitVecs(positive)), VSum(UnitVecs(negative))))
             given == {positive[i] : i \in 1..Len(positive)}
                          \cup {negative[i] : i \in 1..Len(negative)}
             idx == {i \in DOMAIN VocabKeys : VocabKeys[i] \notin given}
             dist == [i \in idx |-> Dot(NormedVectors[i], mean)]
             ranked == RankIdx(idx, dist)
             n == IF topn < Len(ranked) THEN topn ELSE Len(ranked)
         IN  [i \in 1..n |-> VocabKeys[ranked[i]]]

(***************************************************************************)
(* morph_word                                                              *)
(*                                                                         *)
(* A call is a record a: word, target_vibe, source_vibe (optional), top_n, *)
(* context (optional), and what the libraries do during the call:          *)
(* taggerUp, inflectorUp, and hashSeed, the hash seed of the process the   *)
(* call runs in.  The model argument is the loaded embedding.              *)
(***************************************************************************)
\* a vocabulary check that forgets the vibe
VocabMissWordOnly(low, vibe_low) == ~InVocab(low)

\* "if not _in_vocab(model, low) or not _in_vocab(model, vibe_low)"
VocabMiss(low, vibe_low) == ~InVocab(low) \/ ~InVocab(vibe_low)

\* a test that asks only whether a source vibe was given
SourceGiven(source_vibe) == source_vibe.some /\ Len(source_vibe.val) > 0

\* "if source_vibe and _in_vocab(model, source_vibe.lower())"
SourceUsable(source_vibe) ==
    /\ source_vibe.some
    /\ Len(source_vibe.val) > 0
    /\ InVocab(Lower(source_vibe.val))

\* the target vector: word + vibe - source_vibe, unit-normalised when its
\* norm is positive
TargetVec(low, vibe_low, source_vibe) ==
    LET sum == VAdd(Vec(low), Vec(vibe_low))
    IN  Unit(IF SourceUsable(source_vibe)
             THEN VSub(sum, Vec(Lower(source_vibe.val)))
             ELSE sum)

\* source 1 of the pool: the WordNet synonyms of the lemma, those kept whose
\* own tag has the coarse POS of the word
WnCands(lemma, wn_pos, coarse, taggerUp) ==
    IF wn_pos = NoPos THEN {}
    ELSE IF coarse # NoPos
    THEN {w \in WordnetSynonyms(lemma, wn_pos) :
              CoarsePos(PosTagWord(w, None, taggerUp)) = coarse}
    ELSE WordnetSynonyms(lemma, wn_pos)

\* source 2 of the pool: the embedding neighbours of word + vibe - source
NeighbourPool(low, vibe_low, lemma, wn_pos, coarse, source_vibe, top_n, taggerUp) ==
    LET negative == IF SourceUsable(source_vibe)
                    THEN <<Lower(source_vibe.val)>> ELSE <<>>
        raw == MostSimilar(<<low, vibe_low>>, negative, top_n * 5)
        kept == {cw \in {Lower(raw[i]) : i \in 1..Len(raw)} :
                    /\ cw \notin {low, vibe_low, lemma}
                    /\ WordReMatch(cw)
                    /\ coarse # NoPos =>
                           CoarsePos(PosTagWord(cw, None, taggerUp)) = coarse}
        based == {IF wn_pos # NoPos THEN Lemmatize(cw, wn_pos) ELSE cw : cw \in kept}
    IN  {cw \in based : cw \notin {low, vibe_low, lemma}}

\* "sim = float(np.dot(target_vec, cand_vec) / cand_norm)", in 1e-5 units
Sim(target_vec, cand) == (Dot(target_vec, Vec(cand)) * 100) \div Norm(Vec(cand))

\* the scored candidates: those of the pool that are in the vocabulary, can
\* serve the coarse POS and have a vector of positive norm
Scored(pool, coarse, target_vec) ==
    {[w |-> cand, s |-> Sim(target_vec, cand)] :
        cand \in {c \in pool : /\ InVocab(c)
                               /\ coarse # NoPos => CanBePos(c, coarse)
                               /\ Norm(Vec(c)) # 0}}

\* The order "for cand in pool" visits a set of str follows the strings'
\* hashes, which are drawn when the process starts (hash randomisation) and
\* fixed from then on.  Two of these orders are modelled: along the keys of
\* the embedding, and against them.
HashSeeds == {"along", "against"}

\* the place of key w in the index of the embedding
KeyIndex(w) == CHOOSE i \in DOMAIN VocabKeys : VocabKeys[i] = w

\* the rank of word w in the iteration of a set, in a process of this seed
HashRank(seed, w) == IF seed = "along" THEN KeyIndex(w) ELSE 0 - KeyIndex(w)

\* a sort that forgets reverse=True: every order of scored by rising score
RECURSIVE SortedOrdersRising(_)
SortedOrdersRising(scored) ==
    IF scored = {} THEN {<<>>}
    ELSE UNION {{<<x>> \o rest : rest \in SortedOrdersRising(scored \ {x})} :
                   x \in {y \in scored : \A z \in scored : y.s <= z.s}}

\* "for cand in pool" walks a set, in any order; scored.sort(key=score,
\* reverse=True) is stable: every order of scored by falling score
RECURSIVE SortedOrders(_)
SortedOrders(scored) ==
    IF scored = {} THEN {<<>>}
    ELSE UNION {{<<x>> \o rest : rest \in SortedOrders(scored \ {x})} :
                   x \in {y \in scored : \A z \in scored : y.s >= z.s}}

\* the orders of scored a process of this seed produces: scored is filled in
\* the iteration order of pool and the sort is stable, so equal scores keep
\* that order
\* the orders a sort would give if equal scores came out in any order
SeedOrdersAny(scored, seed) == SortedOrders(scored)

SeedOrders(scored, seed) ==
    {order \in SortedOrders(scored) :
        \A i, j \in 1..Len(order) :
            (i < j /\ order[i].s = order[j].s)
                => HashRank(seed, order[i].w) < HashRank(seed, order[j].w)}

\* a skip that forgets the original word
DedupSkipSeenOnly(il, seen, low) == il \in seen

\* a skip that forgets the forms already returned
DedupSkipLowOnly(il, seen, low) == il = low

\* "if il in seen or il == low: continue"
DedupSkip(il, seen, low) == il \in seen \/ il = low

\* "if len(result.candidates) >= top_n: break"
LoopBreak(candidates, top_n) == Len(candidates) >= top_n

\* the loop that inflects and deduplicates, from entry i of the sorted list
RECURSIVE InflectLoop(_, _, _, _, _, _, _, _)
InflectLoop(order, i, seen, candidates, ptb_tag, low, top_n, inflectorUp) ==
    IF i > Len(order) THEN candidates
    ELSE LET inflected == IF ptb_tag # NoTag
                          THEN Inflect(order[i].w, ptb_tag, inflectorUp)
                          ELSE order[i].w
             il == Lower(inflected)
             appended == Append(candidates,
                                [word |-> inflected, score |-> Round4(order[i].s)])
         IN  IF DedupSkip(il, seen, low)
             THEN InflectLoop(order, i + 1, seen, candidates,
                              ptb_tag, low, top_n, inflectorUp)
             ELSE IF LoopBreak(appended, top_n) THEN appended
             ELSE InflectLoop(order, i + 1, seen \cup {il}, appended,
                              ptb_tag, low, top_n, inflectorUp)

\* MorphResult(original, vibe, source_vibe, candidates)
MorphResult(original, vibe, source_vibe, candidates) ==
    [original |-> original, vibe |-> vibe, source_vibe |-> source_vibe,
     candidates |-> candidates]

\* the pool of base forms of a call that passed the vocabulary check
Pool(a) ==
    LET low == Lower(a.word)
        vibe_low == Lower(a.target_vibe)
        ptb_tag == PosTagWord(low, a.context, a.taggerUp)
        wn_pos == IF ptb_tag # NoTag THEN PtbToWordnet(ptb_tag) ELSE NoPos
        coarse == CoarsePos(ptb_tag)
        lemma == IF wn_pos # NoPos THEN Lemmatize(low, wn_pos) ELSE low
    IN  WnCands(lemma, wn_pos, coarse, a.taggerUp)
            \cup NeighbourPool(low, vibe_low, lemma, wn_pos, coarse,
                               a.source_vibe, a.top_n, a.taggerUp)

\* def morph_word(word, target_vibe, source_vibe, top_n, model, context):
\* every outcome of the call.  An outcome is the MorphResult returned (or
\* raised, when an exception leaves the call) and the libraries consulted.
MorphWord(a) ==
    LET low == Lower(a.word)
        vibe_low == Lower(a.target_vibe)
        empty == MorphResult(a.word, a.target_vibe, a.source_vibe, <<>>)
        ptb_tag == PosTagWord(low, a.context, a.taggerUp)
        wn_pos == IF ptb_tag # NoTag THEN PtbToWordnet(ptb_tag) ELSE NoPos
        coarse == CoarsePos(ptb_tag)
        used == {"tagger", "most_similar"}
                    \cup (IF wn_pos # NoPos THEN {"wordnet"} ELSE {})
    IN  IF VocabMiss(low, vibe_low)
        THEN {[raised |-> FALSE, consulted |-> {}, result |-> empty]}
        ELSE IF ~InModel(low) \/ ~InModel(vibe_low)
        THEN \* model[low] or model[vibe_low] raises KeyError
             {[raised |-> TRUE, consulted |-> {"tagger"}, result |-> empty]}
        ELSE IF SourceUsable(a.source_vibe) /\ ~InModel(Lower(a.source_vibe.val))
        THEN \* model[source_vibe.lower()] raises KeyError
             {[raised |-> TRUE, consulted |-> {"tagger"}, result |-> empty]}
        ELSE {[raised |-> FALSE, consulted |-> used,
               result |-> MorphResult(a.word, a.target_vibe, a.source_vibe,
                              InflectLoop(order, 1, {}, <<>>, ptb_tag, low,
                                          a.top_n, a.inflectorUp))] :
                 order \in SeedOrders(
                     Scored(Pool(a), coarse,
                            TargetVec(low, vibe_low, a.source_vibe)),
                     a.hashSeed)}

\* whether the call gets as far as _pos_tag_word, which calls _ensure_nltk
TaggerConsulted(a) == ~VocabMiss(Lower(a.word), Lower(a.target_vibe))

\* whether the call calls _can_be_pos, which populates _COARSE_TO_WN: a
\* coarse POS was found and a pooled base form is in the vocabulary
CanBePosCalled(a) ==
    /\ TaggerConsulted(a)
    /\ CoarsePos(PosTagWord(Lower(a.word), a.context, a.taggerUp)) # NoPos
    /\ \E c \in Pool(a) : InVocab(c)

\* _NLTK_READY after the calls of a set: _ensure_nltk sets it when it runs
\* to its end; when the tagger fails, _ensure_nltk raised (the flag stays)
\* or pos_tag did (the flag is set)
NltkReadyAfter(ready, calls) ==
    IF \E a \in calls : TaggerConsulted(a) /\ a.taggerUp THEN {TRUE}
    ELSE IF \E a \in calls : TaggerConsulted(a) THEN {ready, TRUE}
    ELSE {ready}

\* whether _COARSE_TO_WN is populated after the calls of a set
CoarseToWnAfter(populated, calls) == populated \/ \E a \in calls : CanBePosCalled(a)

\* def morph_words(words, target_vibe, source_vibe, top_n, contexts): the
\* results of zip(words, contexts), contexts being [None] * len(words) when
\* omitted.  b holds words, target_vibe, source_vibe, top_n, contexts
\* (optional), the libraries' state and the hash seed of the process.
WordCall(b, w, ctx) ==
    [word |-> w, target_vibe |-> b.target_vibe, source_vibe |-> b.source_vibe,
     top_n |-> b.top_n, context |-> ctx, taggerUp |-> b.taggerUp,
     inflectorUp |-> b.inflectorUp, hashSeed |-> b.hashSeed]

\* len(list(zip(words, contexts)))
ZipLen(words, contexts) ==
    IF Len(words) < Len(contexts) THEN Len(words) ELSE Len(contexts)

\* the outcomes of the calls i..n of the list comprehension
RECURSIVE MorphWordsFrom(_, _, _, _)
MorphWordsFrom(b, contexts, i, n) ==
    IF i > n THEN {[raised |-> FALSE, results |-> <<>>]}
    ELSE UNION {
           IF o.raised THEN {[raised |-> TRUE, results |-> <<>>]}
           ELSE {[raised |-> rest.raised,
                  results |-> IF rest.raised THEN <<>>
                              ELSE <<o.result>> \o rest.results] :
                     rest \in MorphWordsFrom(b, contexts, i + 1, n)} :
           o \in MorphWord(WordCall(b, b.words[i], contexts[i]))}

\* "if contexts is None: contexts = [None] * len(words)"
BatchContextList(b) ==
    IF b.contexts.some
    THEN [i \in 1..Len(b.contexts.val) |-> Some(b.contexts.val[i])]
    ELSE [i \in 1..Len(b.words) |-> None]

MorphWords(b) ==
    MorphWordsFrom(b, BatchContextList(b), 1, ZipLen(b.words, BatchContextList(b)))

\* the morph_word calls morph_words makes
BatchCalls(b) ==
    {WordCall(b, b.words[i], BatchContextList(b)[i]) :
        i \in 1..ZipLen(b.words, BatchContextList(b))}

(***************************************************************************)
(* Emoji morphing.  A glyph is a string: a sequence of code points.        *)
(***************************************************************************)
\* _EMOJI_STOP
EMOJI_STOP == {<<"f","a","c","e">>,
               <<"w","i","t","h">>,
               <<"a","n","d">>,
               <<"o","f">>,
               <<"i","n">>,
               <<"o","n">>,
               <<"t","h","e">>,
               <<"a">>,
               <<"a","n">>,
               <<"s","i","g","n">>,
               <<"m","a","r","k">>,
               <<"s","y","m","b","o","l">>,
               <<"b","u","t","t","o","n">>,
               <<"t","y","p","e">>,
               <<"s","k","i","n">>,
               <<"t","o","n","e">>,
               <<"l","i","g","h","t">>,
               <<"m","e","d","i","u","m">>,
               <<"d","a","r","k">>}

\* _EMOJI_RANGES: 0x1F300-0x1F5FF, 0x1F600-0x1F64F, 0x1F680-0x1F6FF,
\* 0x1F900-0x1F9FF, 0x1FA70-0x1FAFF, 0x2600-0x27BF, 0x2300-0x23FF
EMOJI_RANGES == <<<<127744, 128511>>, <<128512, 128591>>, <<128640, 128767>>,
                  <<129280, 129535>>, <<129648, 129791>>, <<9728, 10175>>,
                  <<8960, 9215>>>>

\* unicodedata.name(chr(cp)): the characters of the model that have a name;
\* unicodedata.name raises ValueError for the others
UnicodeName(cp) ==
    CASE cp = 127789 -> Some(<<"H","O","T"," ","D","O","G">>)
      [] cp = 128296 -> Some(<<"H","A","M","M","E","R">>)
      [] cp = 127995 -> Some(<<"E","M","O","J","I"," ","M","O","D","I","F","I","E","R"," ","F","I","T","Z","P","A","T","R","I","C","K"," ","T","Y","P","E","-","1","-","2">>)
      [] cp = 128736 -> Some(<<"H","A","M","M","E","R"," ","A","N","D"," ","W","R","E","N","C","H">>)
      [] cp = 129398 -> Some(<<"C","O","L","D"," ","F","A","C","E">>)
      [] cp = 129520 -> Some(<<"T","O","O","L","B","O","X">>)
      [] cp = 129683 -> Some(<<"A","X","E">>)
      [] cp = 9832 -> Some(<<"H","O","T"," ","S","P","R","I","N","G","S">>)
      [] cp = 9874 -> Some(<<"H","A","M","M","E","R"," ","A","N","D"," ","P","I","C","K">>)
      [] cp = 8992 -> Some(<<"T","O","P"," ","H","A","L","F"," ","I","N","T","E","G","R","A","L">>)
      [] OTHER -> None

\* unicodedata.category(chr(cp))
UnicodeCategory(cp) ==
    CASE cp = 127995 -> "Sk"
      [] cp = 8992 -> "Sm"
      [] OTHER -> "So"

\* str.split(): the words of a name, from position i on, cur being the
\* word read so far
RECURSIVE SplitFrom(_, _, _)
SplitFrom(name, i, cur) ==
    IF i > Len(name) THEN (IF Len(cur) > 0 THEN <<cur>> ELSE <<>>)
    ELSE IF name[i] = " "
    THEN (IF Len(cur) > 0 THEN <<cur>> ELSE <<>>) \o SplitFrom(name, i + 1, <<>>)
    ELSE SplitFrom(name, i + 1, Append(cur, name[i]))

Split(name) == SplitFrom(name, 1, <<>>)

\* "keywords = [w.lower() for w in name.split() if w.lower() not in _EMOJI_STOP]"
\* "vecs = [model[k]... for k in keywords if _in_vocab(model, k)]"
KeywordVecs(name) ==
    LET ws == Split(name)
        keywords == SelectSeq([i \in 1..Len(ws) |-> Lower(ws[i])],
                              LAMBDA k : k \notin EMOJI_STOP)
        known == SelectSeq(keywords, LAMBDA k : InVocab(k))
    IN  [i \in 1..Len(known) |-> Vec(known[i])]

\* np.mean(vecs, axis=0)
Mean(vecs) ==
    <<VSum(vecs)[1] \div Len(vecs), VSum(vecs)[2] \div Len(vecs)>>

\* whether the scan of _build_emoji_index keeps code point cp
Indexed(cp) ==
    /\ UnicodeName(cp).some
    /\ UnicodeCategory(cp) \in {"So", "Sk"}
    /\ Len(KeywordVecs(UnicodeName(cp).val)) > 0

\* the vector _build_emoji_index stores for code point cp: the mean of the
\* keyword vectors, divided by its norm when the norm is positive
GlyphVec(cp) == Unit(Mean(KeywordVecs(UnicodeName(cp).val)))

\* the code points of a set, ascending
RECURSIVE Ascending(_)
Ascending(cps) ==
    IF cps = {} THEN <<>>
    ELSE LET lo == CHOOSE c \in cps : \A d \in cps : c <= d
         IN  <<lo>> \o Ascending(cps \ {lo})

\* the glyphs the scan appends to chars, for the ranges from r on
RECURSIVE ScanFrom(_)
ScanFrom(r) ==
    IF r > Len(EMOJI_RANGES) THEN <<>>
    ELSE LET kept == Ascending({cp \in EMOJI_RANGES[r][1]..EMOJI_RANGES[r][2] :
                                    Indexed(cp)})
         IN  [i \in 1..Len(kept) |-> <<kept[i]>>] \o ScanFrom(r + 1)

\* def _build_emoji_index(model): the pair (index, chars)
BuildEmojiIndex ==
    LET chars == ScanFrom(1)
    IN  [index |-> [g \in {chars[i] : i \in 1..Len(chars)} |-> GlyphVec(g[1])],
         chars |-> chars]

\* def is_emoji(text): text is a str, here the sequence of its code points
IsEmoji(text) ==
    IF Len(text) # 1 THEN FALSE
    ELSE LET cp == text[1]
         IN  \/ 127744 <= cp /\ cp <= 129791
             \/ 9728 <= cp /\ cp <= 10175
             \/ 8960 <= cp /\ cp <= 9215

\* list.sort(key=score, reverse=True): stable, the earlier entry first
\* among equal scores
RECURSIVE StableSortDesc(_)
StableSortDesc(xs) ==
    IF Len(xs) = 0 THEN <<>>
    ELSE LET best == CHOOSE i \in 1..Len(xs) :
                         /\ \A j \in 1..Len(xs) : xs[i].s >= xs[j].s
                         /\ \A j \in 1..(i - 1) : xs[j].s < xs[i].s
         IN  <<xs[best]>> \o
                 StableSortDesc(SubSeq(xs, 1, best - 1) \o SubSeq(xs, best + 1, Len(xs)))

\* a membership test that never misses
EmojiMissNever(emoji, index) == FALSE

\* "if emoji not in index: return result"
EmojiMiss(emoji, index) == emoji \notin DOMAIN index

\* a scan that skips nothing
EmojiSkipNever(ch, emoji) == FALSE

\* "if ch == emoji: continue"
EmojiSkip(ch, emoji) == ch = emoji

\* a morph_emoji that forms the target vector in the array of the index
\* (source_vec += vibe_vec; source_vec /= norm)
IndexAfterInPlace(index, emoji, target_vibe) ==
    IF emoji \in DOMAIN index /\ InVocab(Lower(target_vibe))
    THEN [index EXCEPT ![emoji] = Unit(VAdd(index[emoji], Unit(Vec(Lower(target_vibe)))))]
    ELSE index

\* the index after the body of morph_emoji: "source_vec = index[emoji]" reads
\* the stored array, "target_vec = source_vec + vibe_vec" and
\* "target_vec = target_vec / norm" make new arrays, and nothing is assigned
\* into index or chars
IndexAfterBody(index, emoji, target_vibe) == index

\* a slice that keeps the whole list
PrefixAll(xs, top_n) == xs

\* scored[:top_n], for top_n >= 0
Prefix(xs, top_n) == SubSeq(xs, 1, IF top_n < Len(xs) THEN top_n ELSE Len(xs))

\* the target vector of morph_emoji: the glyph's vector plus the unit vector
\* of the vibe, unit-normalised when its norm is positive
EmojiTarget(source_vec, vibe_low) == Unit(VAdd(source_vec, Unit(Vec(vibe_low))))

\* "score = float(np.dot(index[ch], target_vec))", in 1e-5 units
EmojiScore(vec, target_vec) == Dot(vec, target_vec) \div 10

\* def morph_emoji(emoji, target_vibe, top_n, model), from the return of
\* _get_emoji_index on: index is the dict it returned, chars the list, or
\* None.  The outcome is the MorphResult returned, or raised when an
\* exception leaves the call.
MorphEmojiBody(emoji, target_vibe, top_n, index, chars) ==
    LET empty == MorphResult(emoji, target_vibe, None, <<>>)
        vibe_low == Lower(target_vibe)
        target_vec == EmojiTarget(index[emoji], vibe_low)
        others == SelectSeq(chars.val, LAMBDA ch : ~EmojiSkip(ch, emoji))
        scored == [i \in 1..Len(others) |->
                      [w |-> others[i], s |-> EmojiScore(index[others[i]], target_vec)]]
        top == Prefix(StableSortDesc(scored), top_n)
    IN  IF EmojiMiss(emoji, index) THEN [raised |-> FALSE, result |-> empty]
        ELSE IF ~InVocab(vibe_low) THEN [raised |-> FALSE, result |-> empty]
        ELSE IF emoji \notin DOMAIN index
        THEN \* "source_vec = index[emoji]" raises KeyError
             [raised |-> TRUE, result |-> empty]
        ELSE IF ~chars.some
        THEN \* "for ch in chars" on None raises TypeError
             [raised |-> TRUE, result |-> empty]
        ELSE [raised |-> FALSE,
              result |-> MorphResult(emoji, target_vibe, None,
                             [i \in 1..Len(top) |->
                                 [word |-> top[i].w, score |-> Round4(top[i].s)]])]

(***************************************************************************)
(* The inputs of the calls                                                 *)
(***************************************************************************)
WordInputs == {w_Tools, w_tools, w_axes, w_hammer, w_the, w_hot, w_xyzzy}
VibeInputs == {w_dread, w_Joy, w_xyzzy}
\* dog is opposite to hot: the target of HOT SPRINGS toward dog vanishes
EmojiVibeInputs == {w_dread, w_dog, w_xyzzy}
SourceInputs == {None, Some(w_joy), Some(w_qq), Some(<<>>)}
ContextInputs == {None, Some(<<>>), Some(<<w_The, w_Tools, w_broke>>),
                  Some(<<w_we, w_hammer, w_nails>>)}
TopNInputs == 0..MaxTopN

\* HAMMER; HOT SPRINGS; TOOLBOX, which the scan skips; "A"; a string of two
\* glyphs
EmojiInputs == {<<128296>>, <<9832>>, <<129520>>, <<65>>, <<128296, 129683>>}

(***************************************************************************)
(* State                                                                   *)
(*                                                                         *)
(* MODEL, EMOJI_INDEX and EMOJI_CHARS are the module's globals: None, or   *)
(* the value stored.  The loaded model is named by the name it was loaded  *)
(* under; its content is the embedding space above.                        *)
(***************************************************************************)
VARIABLES
    MODEL,        \* _MODEL
    EMOJI_INDEX,  \* _EMOJI_INDEX
    EMOJI_CHARS,  \* _EMOJI_CHARS
    loads,        \* executions of api.load that returned a model
    builds,       \* executions of _build_emoji_index
    pc,           \* where each thread stands
    op,           \* the function each thread was called with
    loc,          \* each thread's locals: built, index
    ret,          \* what the last step of a thread returned to its caller
    wordRet,      \* the last return to a caller that passes the loaded model
    hashSeed,     \* the hash seed of the process
    NLTK_READY,   \* _NLTK_READY
    COARSE_TO_WN  \* whether _COARSE_TO_WN is populated

\* the state of module ghostwriter.morph and of its callers
coreVars == <<MODEL, EMOJI_INDEX, EMOJI_CHARS, loads, builds, pc, op, loc, ret,
              wordRet, hashSeed, NLTK_READY, COARSE_TO_WN>>

\* the web server and the morph service (server.py, morph_service.py)
VARIABLES
    deployment,     \* "web": server.py loading the model itself; "proxy":
                    \* server.py with MORPH_SERVICE_URL set; "service":
                    \* morph_service.py
    model_ready,    \* _model_ready
    preload_error,  \* _preload_error
    preloadPc,      \* where the _preload thread stands
    handlerPc,      \* where each request handler stands
    resp            \* the response the last finished request got

serverVars == <<deployment, model_ready, preload_error, preloadPc, handlerPc, resp>>

\* the saved writings of the web server (server.py)
VARIABLES
    poems,     \* POEMS_DIR/<id>.html: "absent", or the kind of writing saved
    og_cache,  \* the ids with a file POEMS_DIR/og_cache/<id>.gif
    deleted    \* the ids api_delete has unlinked

writingVars == <<poems, og_cache, deleted>>

\* the local poem server of the TUI (web.py)
VARIABLES
    server,        \* _server: None, or the HTTPServer, named by its port
    current_html,  \* _current_html
    servers,       \* the HTTPServer objects created, by port
    serving,       \* the servers a serve_forever thread was started for
    sharePc,       \* where each share worker stands in start_server
    shareLoc,      \* each share worker's html_content
    shareRet       \* what the last start_server call returned

shareVars == <<server, current_html, servers, serving, sharePc, shareLoc, shareRet>>

\* the terminal application (app.py).  A poem is one line; the text of the
\* editor and of the tokens is the sequence of the words of the line, the
\* tokens between the words never being tagged.
VARIABLES
    app_model_ready,  \* self._model_ready
    loadWorker,       \* the state of the _load_model worker
    editor,           \* the text of the editor
    poem_tokens,      \* self._poem_tokens
    tokenized_text,   \* self._tokenized_text
    cycling,          \* self._cycling
    batchWorkers,     \* the _run_batch_morph workers that have not completed
    addWorkers,       \* the _run_add_morph workers that have not completed
    started,          \* the morph workers started so far
    status            \* the text of the status bar

tuiVars == <<app_model_ready, loadWorker, editor, poem_tokens, tokenized_text,
             cycling, batchWorkers, addWorkers, started, status>>

\* the state of the applications around ghostwriter.morph
appVars == <<serverVars, writingVars, shareVars, tuiVars>>

\* the applications other than the morph handlers of the servers
besidesServer == <<writingVars, shareVars, tuiVars>>

\* the applications other than the saved writings; resp is shared
besidesWritings ==
    <<deployment, model_ready, preload_error, preloadPc, handlerPc, shareVars,
      tuiVars>>

\* the applications other than the local poem server
besidesShare == <<serverVars, writingVars, tuiVars>>

\* the applications other than the terminal application
besidesTui == <<serverVars, writingVars, shareVars>>

\* the ids of writings: the first 8 hex digits of a sha256
WritingIds == {"0a1b2c3d", "deadbeef"}

vars == <<coreVars, appVars>>

\* no writing is saved; the module clears og_cache when it is imported
WritingsInit ==
    /\ poems = [id \in WritingIds |-> "absent"]
    /\ og_cache = {}
    /\ deleted = {}

\* web.py is imported: no server, no content
ShareInit ==
    /\ server = None
    /\ current_html = ""
    /\ servers = {}
    /\ serving = {}
    /\ sharePc = [t \in Threads |-> "idle"]
    /\ shareLoc = [t \in Threads |-> ""]
    /\ shareRet = [op |-> "none"]

\* GhostwriterApp.__init__ and compose: nothing mounted yet
TuiInit ==
    /\ app_model_ready = FALSE
    /\ loadWorker = "none"
    /\ editor = <<>>
    /\ poem_tokens = <<>>
    /\ tokenized_text = <<>>
    /\ cycling = FALSE
    /\ batchWorkers = {}
    /\ addWorkers = {}
    /\ started = [batch |-> 0, add |-> 0]
    /\ status = "Loading embeddings"

\* a process in which no application runs
AppInit ==
    /\ deployment = "none"
    /\ model_ready = FALSE
    /\ preload_error = None
    /\ preloadPc = "none"
    /\ handlerPc = [t \in Threads |-> "idle"]
    /\ resp = [op |-> "none"]
    /\ WritingsInit
    /\ ShareInit
    /\ TuiInit

morphVars == <<MODEL, EMOJI_INDEX, EMOJI_CHARS, loads, builds, pc, op, loc, ret,
               hashSeed>>

\* the state of the NLTK helpers
libVars == <<hashSeed, NLTK_READY, COARSE_TO_WN>>

\* _MODEL_NAME
MODEL_NAME == "glove-wiki-gigaword-100"

NoLocals == [built |-> None, index |-> None]

Init ==
    /\ MODEL = None
    /\ EMOJI_INDEX = None
    /\ EMOJI_CHARS = None
    /\ loads = 0
    /\ builds = 0
    /\ pc = [t \in Threads |-> "idle"]
    /\ op = [t \in Threads |-> "none"]
    /\ loc = [t \in Threads |-> NoLocals]
    /\ ret = [op |-> "none"]
    /\ wordRet = [op |-> "none"]
    /\ hashSeed \in HashSeeds
    /\ NLTK_READY = FALSE
    /\ COARSE_TO_WN = FALSE
    /\ AppInit

(***************************************************************************)
(* Threads calling load_model and morph_emoji.  A step runs a thread from  *)
(* one access to a global to the next: what a thread does to its own       *)
(* arguments and locals is part of the step that follows an access.        *)
(***************************************************************************)
Goto(t, label) == pc' = [pc EXCEPT ![t] = label]

SetLoc(t, field, value) == loc' = [loc EXCEPT ![t][field] = value]

\* ret is what the step just taken returned to the thread's caller: nothing,
\* for a step inside a call
NoReturn == ret' = [op |-> "none"]

\* load_model: "if _MODEL is None"
LoadModelTest(t) ==
    Goto(t, IF MODEL = None THEN "api_load" ELSE "load_model_return")

\* a thread calls load_model()
CallLoadModel(t) ==
    /\ pc[t] = "idle"
    /\ op' = [op EXCEPT ![t] = "load_model"]
    /\ LoadModelTest(t)
    /\ NoReturn
    /\ UNCHANGED <<MODEL, EMOJI_INDEX, EMOJI_CHARS, loads, builds, loc, wordRet, libVars, appVars>>

\* a thread calls morph_emoji(emoji, target_vibe, top_n) with no model:
\* "if model is None: model = load_model()"
CallMorphEmoji(t) ==
    /\ pc[t] = "idle"
    /\ op' = [op EXCEPT ![t] = "morph_emoji"]
    /\ LoadModelTest(t)
    /\ NoReturn
    /\ UNCHANGED <<MODEL, EMOJI_INDEX, EMOJI_CHARS, loads, builds, loc, wordRet, libVars, appVars>>

\* load_model: "_MODEL = api.load(name)", the load returning a model
ApiLoad(t) ==
    /\ pc[t] = "api_load"
    /\ loads' = loads + 1
    /\ MODEL' = Some(MODEL_NAME)
    /\ Goto(t, "load_model_return")
    /\ NoReturn
    /\ UNCHANGED <<EMOJI_INDEX, EMOJI_CHARS, builds, op, loc, wordRet, libVars, appVars>>

\* a failed load that function fn turns into an empty result
LoadFailureSwallowed(fn) ==
    [op |-> fn, stage |-> "load_model", raised |-> FALSE,
     result |-> MorphResult(<<>>, <<>>, None, <<>>)]

\* what function fn hands its caller when api.load raises inside it: nothing
\* catches the exception in load_model, nor around "model = load_model()"
LoadFailure(fn) == [op |-> fn, stage |-> "load_model", raised |-> TRUE]

\* load_model: api.load raises (no network, no cache); the exception leaves
\* load_model and its caller
ApiLoadRaises(t) ==
    /\ pc[t] = "api_load"
    /\ ret' = LoadFailure(op[t])
    /\ op' = [op EXCEPT ![t] = "none"]
    /\ Goto(t, "idle")
    /\ UNCHANGED <<MODEL, EMOJI_INDEX, EMOJI_CHARS, loads, builds, loc, wordRet, libVars, appVars>>

\* where a function goes on once "model = load_model()" has returned
AfterLoad(fn) ==
    CASE fn = "morph_emoji" -> "get_index_test"
      [] fn = "morph_word" -> "word_body"
      [] fn = "morph_words" -> "words_body"

\* load_model: "return _MODEL"; in morph_emoji the call
\* _get_emoji_index(model) follows, in morph_word and morph_words the body
LoadModelReturn(t) ==
    /\ pc[t] = "load_model_return"
    /\ IF op[t] = "load_model"
       THEN /\ ret' = [op |-> "load_model", stage |-> "load_model",
                       raised |-> FALSE, model |-> MODEL]
            /\ op' = [op EXCEPT ![t] = "none"]
            /\ Goto(t, "idle")
       ELSE /\ Goto(t, AfterLoad(op[t]))
            /\ NoReturn
            /\ UNCHANGED op
    /\ UNCHANGED <<MODEL, EMOJI_INDEX, EMOJI_CHARS, loads, builds, loc, wordRet, libVars, appVars>>

\* _get_emoji_index: "if _EMOJI_INDEX is None", and on None the call
\* _build_emoji_index(model), whose result the thread holds
GetIndexTest(t) ==
    /\ pc[t] = "get_index_test"
    /\ IF EMOJI_INDEX = None
       THEN /\ builds' = builds + 1
            /\ SetLoc(t, "built", Some(BuildEmojiIndex))
            /\ Goto(t, "store_index")
       ELSE /\ Goto(t, "read_index")
            /\ UNCHANGED <<builds, loc>>
    /\ NoReturn
    /\ UNCHANGED <<MODEL, EMOJI_INDEX, EMOJI_CHARS, loads, op, wordRet, libVars, appVars>>

\* _get_emoji_index: "_EMOJI_INDEX, _EMOJI_CHARS = ..." stores the first
\* global
StoreIndex(t) ==
    /\ pc[t] = "store_index"
    /\ EMOJI_INDEX' = Some(loc[t].built.val.index)
    /\ Goto(t, "store_chars")
    /\ NoReturn
    /\ UNCHANGED <<MODEL, EMOJI_CHARS, loads, builds, op, loc, wordRet, libVars, appVars>>

\* ... and then the second
StoreChars(t) ==
    /\ pc[t] = "store_chars"
    /\ EMOJI_CHARS' = Some(loc[t].built.val.chars)
    /\ SetLoc(t, "built", None)
    /\ Goto(t, "read_index")
    /\ NoReturn
    /\ UNCHANGED <<MODEL, EMOJI_INDEX, loads, builds, op, wordRet, libVars, appVars>>

\* _get_emoji_index: "return _EMOJI_INDEX, _EMOJI_CHARS" reads the first
\* global
ReadIndex(t) ==
    /\ pc[t] = "read_index"
    /\ SetLoc(t, "index", EMOJI_INDEX)
    /\ Goto(t, "read_chars")
    /\ NoReturn
    /\ UNCHANGED <<MODEL, EMOJI_INDEX, EMOJI_CHARS, loads, builds, op, wordRet, libVars, appVars>>

\* the top_n of morph_emoji calls: those of morph_word, and one more than
\* there are indexed glyphs
EmojiTopNInputs == TopNInputs \cup {Len(BuildEmojiIndex.chars) + 1}

\* MorphEmojiBody for every input of the model and the index every build
\* yields, chars being the list built (TRUE) or None
EmojiOutcome ==
    [emoji \in EmojiInputs, target_vibe \in EmojiVibeInputs, top_n \in EmojiTopNInputs,
     listed \in BOOLEAN |->
        MorphEmojiBody(emoji, target_vibe, top_n, BuildEmojiIndex.index,
                       IF listed THEN Some(BuildEmojiIndex.chars) ELSE None)]

\* ... and then the second, and morph_emoji runs to its return.  From here
\* on morph_emoji works on its arguments and locals alone, so the arguments
\* are drawn here
ReadCharsAndReturn(t) ==
    /\ pc[t] = "read_chars"
    /\ \E emoji \in EmojiInputs, target_vibe \in EmojiVibeInputs,
          top_n \in EmojiTopNInputs :
           LET out == EmojiOutcome[emoji, target_vibe, top_n, EMOJI_CHARS.some]
           IN  /\ ret' = [op |-> "morph_emoji", stage |-> "body",
                          emoji |-> emoji, target_vibe |-> target_vibe,
                          top_n |-> top_n, listed |-> EMOJI_CHARS.some,
                          raised |-> out.raised, result |-> out.result]
               /\ EMOJI_INDEX' =
                      IF EMOJI_INDEX.some
                      THEN Some(IndexAfterBody(EMOJI_INDEX.val, emoji, target_vibe))
                      ELSE EMOJI_INDEX
    /\ loc' = [loc EXCEPT ![t] = NoLocals]
    /\ op' = [op EXCEPT ![t] = "none"]
    /\ Goto(t, "idle")
    /\ UNCHANGED <<MODEL, EMOJI_CHARS, loads, builds, wordRet, libVars, appVars>>

Next ==
    \E t \in Threads :
        \/ CallLoadModel(t)
        \/ CallMorphEmoji(t)
        \/ ApiLoad(t)
        \/ ApiLoadRaises(t)
        \/ LoadModelReturn(t)
        \/ GetIndexTest(t)
        \/ StoreIndex(t)
        \/ StoreChars(t)
        \/ ReadIndex(t)
        \/ ReadCharsAndReturn(t)

\* the threads of one process calling load_model and morph_emoji
Spec == Init /\ [][Next]_vars

(***************************************************************************)
(* Calls of morph_word without a model, and of morph_words, by a thread    *)
(***************************************************************************)
\* the calls of morph_word a thread makes, in a process of either seed
ThreadWordCalls ==
    [word : {w_Tools, w_xyzzy}, target_vibe : {w_dread}, source_vibe : {None},
     top_n : {MaxTopN}, context : {None}, taggerUp : {TRUE}, inflectorUp : {TRUE},
     hashSeed : HashSeeds]

\* the calls of morph_words a thread makes
ThreadBatches ==
    [words : {<<w_Tools, w_xyzzy>>}, target_vibe : {w_dread},
     source_vibe : {None}, top_n : {MaxTopN}, contexts : {None},
     taggerUp : {TRUE}, inflectorUp : {TRUE}, hashSeed : HashSeeds]

\* the calls of morph_word a caller makes twice: with and without context,
\* with the tagger up and down; hot toward joy with the tagger down scores
\* tools and axis equally
RepeatCalls ==
    [word : {w_Tools, w_hot}, target_vibe : {w_joy}, source_vibe : {None},
     top_n : {MaxTopN}, context : {None, Some(<<w_The, w_Tools, w_broke>>)},
     taggerUp : BOOLEAN, inflectorUp : {TRUE}, hashSeed : HashSeeds]

\* morph_word on each of these calls: its outcomes, and whether it calls
\* _can_be_pos
WordCallTable ==
    {[call |-> a, outs |-> MorphWord(a), pos |-> CanBePosCalled(a)] :
        a \in ThreadWordCalls \cup RepeatCalls}

\* morph_words on each of these calls
BatchTable ==
    {[call |-> b, outs |-> MorphWords(b),
      pos |-> \E a \in BatchCalls(b) : CanBePosCalled(a)] : b \in ThreadBatches}

\* a thread calls morph_word(word, target_vibe) with no model:
\* "if model is None: model = load_model()"
CallMorphWordNoModel(t) ==
    /\ pc[t] = "idle"
    /\ op' = [op EXCEPT ![t] = "morph_word"]
    /\ LoadModelTest(t)
    /\ NoReturn
    /\ UNCHANGED <<MODEL, EMOJI_INDEX, EMOJI_CHARS, loads, builds, loc, wordRet, libVars, appVars>>

\* a thread calls morph_words(words, target_vibe): "model = load_model()"
CallMorphWordsThread(t) ==
    /\ pc[t] = "idle"
    /\ op' = [op EXCEPT ![t] = "morph_words"]
    /\ LoadModelTest(t)
    /\ NoReturn
    /\ UNCHANGED <<MODEL, EMOJI_INDEX, EMOJI_CHARS, loads, builds, loc, wordRet, libVars, appVars>>

\* morph_word, from the return of load_model to its own return
WordBodyReturn(t) ==
    /\ pc[t] = "word_body"
    /\ \E r \in WordCallTable :
           /\ r.call \in ThreadWordCalls
           /\ r.call.hashSeed = hashSeed
           /\ \E o \in r.outs :
                  ret' = [op |-> "morph_word", stage |-> "body", call |-> r.call,
                          raised |-> o.raised, result |-> o.result]
           /\ NLTK_READY' \in NltkReadyAfter(NLTK_READY, {r.call})
           /\ COARSE_TO_WN' = (COARSE_TO_WN \/ r.pos)
    /\ op' = [op EXCEPT ![t] = "none"]
    /\ Goto(t, "idle")
    /\ UNCHANGED <<MODEL, EMOJI_INDEX, EMOJI_CHARS, loads, builds, loc, wordRet, hashSeed, appVars>>

\* morph_words, from the return of load_model to its own return
WordsBodyReturn(t) ==
    /\ pc[t] = "words_body"
    /\ \E r \in BatchTable :
           /\ r.call.hashSeed = hashSeed
           /\ \E o \in r.outs :
                  ret' = [op |-> "morph_words", stage |-> "body", call |-> r.call,
                          raised |-> o.raised, results |-> o.results]
           /\ NLTK_READY' \in NltkReadyAfter(NLTK_READY, BatchCalls(r.call))
           /\ COARSE_TO_WN' = (COARSE_TO_WN \/ r.pos)
    /\ op' = [op EXCEPT ![t] = "none"]
    /\ Goto(t, "idle")
    /\ UNCHANGED <<MODEL, EMOJI_INDEX, EMOJI_CHARS, loads, builds, loc, wordRet, hashSeed, appVars>>

\* the caller of the calls below: the first thread
Caller == CHOOSE t \in Threads : \A u \in Threads : t <= u

\* the cache state a call starts in
CachesNow ==
    [model |-> MODEL.some, index |-> EMOJI_INDEX.some, chars |-> EMOJI_CHARS.some,
     ready |-> NLTK_READY, coarse |-> COARSE_TO_WN]

\* the caller, inside no other call, calls morph_word with the loaded model
\* and keeps the result
CallMorphWordOnce ==
    /\ pc[Caller] = "idle"
    /\ wordRet.op = "none"
    /\ \E r \in WordCallTable :
           /\ r.call \in RepeatCalls
           /\ r.call.hashSeed = hashSeed
           /\ \E o \in r.outs :
                  wordRet' = [op |-> "morph_word", call |-> r.call, out |-> o,
                              at |-> CachesNow]
           /\ NLTK_READY' \in NltkReadyAfter(NLTK_READY, {r.call})
           /\ COARSE_TO_WN' = (COARSE_TO_WN \/ r.pos)
    /\ NoReturn
    /\ UNCHANGED <<MODEL, EMOJI_INDEX, EMOJI_CHARS, loads, builds, pc, op, loc, hashSeed, appVars>>

\* the caller makes the call it kept the result of once more, with the same
\* arguments
CallMorphWordAgain ==
    /\ pc[Caller] = "idle"
    /\ wordRet.op = "morph_word"
    /\ \E r \in WordCallTable :
           /\ r.call = wordRet.call
           /\ \E o \in r.outs :
                  wordRet' = [op |-> "morph_word_again", call |-> r.call,
                              first |-> wordRet.out, out |-> o,
                              at |-> wordRet.at, again_at |-> CachesNow]
           /\ NLTK_READY' \in NltkReadyAfter(NLTK_READY, {r.call})
           /\ COARSE_TO_WN' = (COARSE_TO_WN \/ r.pos)
    /\ NoReturn
    /\ UNCHANGED <<MODEL, EMOJI_INDEX, EMOJI_CHARS, loads, builds, pc, op, loc, hashSeed, appVars>>

(***************************************************************************)
(* Calls of morph_word and morph_words with a loaded model                 *)
(***************************************************************************)
\* a caller calls morph_word(word, target_vibe, source_vibe, top_n, model,
\* context)
CallMorphWord ==
    \E word \in WordInputs, target_vibe \in VibeInputs, source_vibe \in SourceInputs,
       top_n \in TopNInputs, context \in ContextInputs,
       taggerUp \in BOOLEAN, inflectorUp \in BOOLEAN :
        LET a == [word |-> word, target_vibe |-> target_vibe,
                  source_vibe |-> source_vibe, top_n |-> top_n,
                  context |-> context, taggerUp |-> taggerUp,
                  inflectorUp |-> inflectorUp, hashSeed |-> hashSeed]
        IN  /\ wordRet.op = "none"
            /\ \E o \in MorphWord(a) :
                   wordRet' = [op |-> "morph_word", call |-> a, out |-> o]
            /\ NLTK_READY' \in NltkReadyAfter(NLTK_READY, {a})
            /\ COARSE_TO_WN' = CoarseToWnAfter(COARSE_TO_WN, {a})
            /\ UNCHANGED <<morphVars, appVars>>

\* the lists of at most n entries drawn from a set
RECURSIVE ListsUpTo(_, _)
ListsUpTo(S, n) ==
    IF n = 0 THEN {<<>>}
    ELSE ListsUpTo(S, n - 1)
             \cup {Append(l, x) : l \in {m \in ListsUpTo(S, n - 1) : Len(m) = n - 1},
                                  x \in S}

BatchWords == {w_Tools, w_axes, w_xyzzy}
BatchContexts == {<<>>, <<w_The, w_Tools, w_broke>>}

\* a caller calls morph_words(words, target_vibe, source_vibe, top_n,
\* contexts); load_model() returns the loaded model
CallMorphWords ==
    \E words \in ListsUpTo(BatchWords, MaxWords),
       contexts \in {None} \cup {Some(c) : c \in ListsUpTo(BatchContexts, MaxWords)},
       target_vibe \in {w_dread, w_xyzzy}, top_n \in TopNInputs :
        LET b == [words |-> words, target_vibe |-> target_vibe,
                  source_vibe |-> None, top_n |-> top_n, contexts |-> contexts,
                  taggerUp |-> TRUE, inflectorUp |-> TRUE, hashSeed |-> hashSeed]
        IN  /\ wordRet.op = "none"
            /\ \E o \in MorphWords(b) :
                   wordRet' = [op |-> "morph_words", call |-> b, out |-> o]
            /\ NLTK_READY' \in NltkReadyAfter(NLTK_READY, BatchCalls(b))
            /\ COARSE_TO_WN' = CoarseToWnAfter(COARSE_TO_WN, BatchCalls(b))
            /\ UNCHANGED <<morphVars, appVars>>

\* the caller is done with the result
DropResult ==
    /\ wordRet.op # "none"
    /\ wordRet' = [op |-> "none"]
    /\ UNCHANGED <<morphVars, NLTK_READY, COARSE_TO_WN, appVars>>

NextWord == CallMorphWord \/ CallMorphWords \/ DropResult

\* a process whose callers load the model themselves and have tagged and
\* scored before: _NLTK_READY is set and _COARSE_TO_WN populated
InitWord ==
    /\ MODEL = None
    /\ EMOJI_INDEX = None
    /\ EMOJI_CHARS = None
    /\ loads = 0
    /\ builds = 0
    /\ pc = [t \in Threads |-> "idle"]
    /\ op = [t \in Threads |-> "none"]
    /\ loc = [t \in Threads |-> NoLocals]
    /\ ret = [op |-> "none"]
    /\ wordRet = [op |-> "none"]
    /\ hashSeed \in HashSeeds
    /\ NLTK_READY = TRUE
    /\ COARSE_TO_WN = TRUE
    /\ AppInit

\* callers of morph_word and morph_words, the model loaded
SpecWord == InitWord /\ [][NextWord]_vars

NextCaller ==
    \/ CallLoadModel(Caller)
    \/ CallMorphEmoji(Caller)
    \/ CallMorphWordNoModel(Caller)
    \/ CallMorphWordsThread(Caller)
    \/ ApiLoad(Caller)
    \/ ApiLoadRaises(Caller)
    \/ LoadModelReturn(Caller)
    \/ GetIndexTest(Caller)
    \/ StoreIndex(Caller)
    \/ StoreChars(Caller)
    \/ ReadIndex(Caller)
    \/ ReadCharsAndReturn(Caller)
    \/ WordBodyReturn(Caller)
    \/ WordsBodyReturn(Caller)
    \/ CallMorphWordOnce
    \/ CallMorphWordAgain
    \/ DropResult

\* one caller that makes every call of the module, one after the other, and
\* repeats a call of morph_word it made before
SpecCaller == Init /\ [][NextCaller]_vars

(***************************************************************************)
(* What the calls of the model returned                                    *)
(***************************************************************************)
\* the last step returned from the body of morph_emoji
EmojiReturned == ret.op = "morph_emoji" /\ ret.stage = "body"

\* the caller holds the return of a morph_word call
WordReturned == wordRet.op = "morph_word"

\* the caller holds the return of a morph_words call
WordsReturned == wordRet.op = "morph_words"

\* the tag morph_word finds for the word of call a
CallTag(a) == PosTagWord(Lower(a.word), a.context, a.taggerUp)

\* the surface form morph_word gives base form w in call a
CallSurface(a, w) ==
    Lower(IF CallTag(a) # NoTag THEN Inflect(w, CallTag(a), a.inflectorUp) ELSE w)

\* the scored base forms of call a
CallScored(a) ==
    Scored(Pool(a), CoarsePos(CallTag(a)),
           TargetVec(Lower(a.word), Lower(a.target_vibe), a.source_vibe))

\* the candidates of a returned MorphResult, as a set of positions
Positions(result) == 1..Len(result.candidates)

(***************************************************************************)
(* Calls of the pure functions _pos_tag_word and is_emoji                  *)
(***************************************************************************)
PureWords == {w_hammer, w_Tools, w_tools, w_the, w_xyzzy}

\* no context, an empty one, one with a capitalised match, one whose first
\* match of hammer is a verb and whose second is a noun, one whose only
\* match is a verb, one without any of the words
PureContexts ==
    {None, Some(<<>>), Some(<<w_The, w_Tools, w_broke>>),
     Some(<<w_we, w_hammer, w_the, w_hammer>>), Some(<<w_we, w_hammer, w_nails>>),
     Some(<<w_we, w_build>>)}

\* a caller calls _pos_tag_word(word, context), which calls _ensure_nltk
CallPosTagWord ==
    /\ wordRet.op = "none"
    /\ \E word \in PureWords, context \in PureContexts, taggerUp \in BOOLEAN :
           /\ wordRet' = [op |-> "pos_tag_word", word |-> word, context |-> context,
                          taggerUp |-> taggerUp,
                          tag |-> PosTagWord(word, context, taggerUp)]
           /\ NLTK_READY' \in (IF taggerUp THEN {TRUE} ELSE {NLTK_READY, TRUE})
    /\ UNCHANGED <<morphVars, COARSE_TO_WN, appVars>>

\* the ends of every range of _EMOJI_RANGES and of is_emoji, and their
\* neighbours
EdgeCodePoints ==
    {65, 8959, 8960, 9215, 9216, 9727, 9728, 9832, 10175, 10176,
     127743, 127744, 128296, 128511, 128512, 128591, 128592, 128639, 128640,
     128767, 128768, 129279, 129280, 129535, 129536, 129647, 129648, 129791,
     129792}

\* the strings is_emoji is called with: the empty one, one character, two
TextInputs ==
    {<<>>} \cup {<<cp>> : cp \in EdgeCodePoints}
           \cup {<<cp, 128296>> : cp \in EdgeCodePoints}

\* a caller calls is_emoji(text)
CallIsEmoji ==
    /\ wordRet.op = "none"
    /\ \E text \in TextInputs :
           wordRet' = [op |-> "is_emoji", text |-> text, is |-> IsEmoji(text)]
    /\ UNCHANGED <<morphVars, NLTK_READY, COARSE_TO_WN, appVars>>

NextPure == CallPosTagWord \/ CallIsEmoji \/ DropResult

SpecPure == Init /\ [][NextPure]_vars

(***************************************************************************)
(* The web server and the morph service: the _preload thread and the       *)
(* handlers of POST /api/morph (server.py) and POST /morph                 *)
(* (morph_service.py)                                                      *)
(***************************************************************************)
StillLoading == "Model still loading..."

\* a ready test that lets every request through
NotReadyNever(ready) == FALSE

\* "if not _model_ready"
NotReady(ready) == ~ready

\* the module is imported: with MORPH_SERVICE_URL set, server.py sets
\* _model_ready and starts no thread; otherwise the _preload thread is started
ServerInit ==
    /\ deployment \in {"web", "proxy", "service"}
    /\ model_ready = (deployment = "proxy")
    /\ preload_error = None
    /\ preloadPc = IF deployment = "proxy" THEN "none" ELSE "start"
    /\ handlerPc = [t \in Threads |-> "idle"]
    /\ resp = [op |-> "none"]
    /\ WritingsInit
    /\ ShareInit
    /\ TuiInit

InitServer ==
    /\ MODEL = None
    /\ EMOJI_INDEX = None
    /\ EMOJI_CHARS = None
    /\ loads = 0
    /\ builds = 0
    /\ pc = [t \in Threads |-> "idle"]
    /\ op = [t \in Threads |-> "none"]
    /\ loc = [t \in Threads |-> NoLocals]
    /\ ret = [op |-> "none"]
    /\ wordRet = [op |-> "none"]
    /\ hashSeed \in HashSeeds
    /\ NLTK_READY = FALSE
    /\ COARSE_TO_WN = FALSE
    /\ ServerInit

\* _preload: the import, and load_model() up to "if _MODEL is None"
PreloadStart ==
    /\ preloadPc = "start"
    /\ preloadPc' = IF MODEL = None THEN "api_load" ELSE "set_ready"
    /\ UNCHANGED <<coreVars, deployment, model_ready, preload_error, handlerPc, resp,
                   besidesServer>>

\* _preload: api.load returns and load_model stores the model
PreloadApiLoad ==
    /\ preloadPc = "api_load"
    /\ MODEL' = Some(MODEL_NAME)
    /\ loads' = loads + 1
    /\ preloadPc' = "set_ready"
    /\ UNCHANGED <<EMOJI_INDEX, EMOJI_CHARS, builds, pc, op, loc, ret, wordRet,
                   libVars, deployment, model_ready, preload_error, handlerPc, resp,
                   besidesServer>>

\* _preload: "_model_ready = True"
PreloadSetReady ==
    /\ preloadPc = "set_ready"
    /\ model_ready' = TRUE
    /\ preloadPc' = "done"
    /\ UNCHANGED <<coreVars, deployment, preload_error, handlerPc, resp,
                   besidesServer>>

\* _preload: the import or api.load raises; "except Exception as e:
\* _preload_error = str(e)"
PreloadFails ==
    /\ preloadPc = "api_load"
    /\ preload_error' = Some("load failed")
    /\ preloadPc' = "failed"
    /\ UNCHANGED <<coreVars, deployment, model_ready, handlerPc, resp,
                   besidesServer>>

\* the answers of the external morph service to the proxied request
UpstreamAnswers == {200, 503}

\* a handler takes a morph request and runs up to the morph call: the key
\* check, the proxy branch of server.py, the ready test.  failed records
\* whether _preload_error was set when the request was handled.
HandleMorph(t) ==
    /\ deployment # "none"
    /\ handlerPc[t] = "idle"
    /\ \E key_ok \in BOOLEAN, upstream \in UpstreamAnswers :
           IF ~key_ok
           THEN /\ resp' = [op |-> "morph", status |-> 403, body |-> "Forbidden",
                            ready |-> model_ready, failed |-> preload_error.some]
                /\ UNCHANGED handlerPc
           ELSE IF deployment = "proxy"
           THEN /\ resp' = [op |-> "morph", status |-> upstream, body |-> "proxied",
                            ready |-> model_ready, failed |-> preload_error.some]
                /\ UNCHANGED handlerPc
           ELSE IF NotReady(model_ready)
           THEN /\ resp' = [op |-> "morph", status |-> 503, body |-> StillLoading,
                            ready |-> model_ready, failed |-> preload_error.some]
                /\ UNCHANGED handlerPc
           ELSE /\ handlerPc' = [handlerPc EXCEPT ![t] = "load_model"]
                /\ UNCHANGED resp
    /\ UNCHANGED <<coreVars, deployment, model_ready, preload_error, preloadPc,
                   besidesServer>>

\* the handler calls morph_word without a model: "model = load_model()", which
\* runs api.load when _MODEL is None
HandlerLoadModel(t) ==
    /\ handlerPc[t] = "load_model"
    /\ IF MODEL = None
       THEN MODEL' = Some(MODEL_NAME) /\ loads' = loads + 1
       ELSE UNCHANGED <<MODEL, loads>>
    /\ handlerPc' = [handlerPc EXCEPT ![t] = "body"]
    /\ UNCHANGED <<EMOJI_INDEX, EMOJI_CHARS, builds, pc, op, loc, ret, wordRet,
                   libVars, deployment, model_ready, preload_error, preloadPc, resp,
                   besidesServer>>

\* the body of morph_word for the one word of the request, and the response:
\* the results, or 500 when morph_word raises
HandlerRespond(t) ==
    /\ handlerPc[t] = "body"
    /\ \E r \in WordCallTable :
           /\ r.call \in ThreadWordCalls
           /\ r.call.hashSeed = hashSeed
           /\ \E o \in r.outs :
                  resp' = [op |-> "morph",
                           status |-> IF o.raised THEN 500 ELSE 200,
                           body |-> o.result.candidates,
                           ready |-> model_ready, failed |-> preload_error.some]
           /\ NLTK_READY' \in NltkReadyAfter(NLTK_READY, {r.call})
           /\ COARSE_TO_WN' = (COARSE_TO_WN \/ r.pos)
    /\ handlerPc' = [handlerPc EXCEPT ![t] = "idle"]
    /\ UNCHANGED <<MODEL, EMOJI_INDEX, EMOJI_CHARS, loads, builds, pc, op, loc, ret,
                   wordRet, hashSeed, deployment, model_ready, preload_error,
                   preloadPc,
                   besidesServer>>

NextServer ==
    \/ PreloadStart
    \/ PreloadApiLoad
    \/ PreloadSetReady
    \/ PreloadFails
    \/ \E t \in Threads : HandleMorph(t) \/ HandlerLoadModel(t) \/ HandlerRespond(t)

SpecServer == InitServer /\ [][NextServer]_vars

(***************************************************************************)
(* The saved writings of the web server: api_save, view_poem, og_image,    *)
(* og_image_gif, api_delete                                                *)
(***************************************************************************)
\* an id that fails re.fullmatch(r"[a-f0-9]{8}", id)
BadId == "nothex"

RequestIds == WritingIds \cup {BadId}

\* the file POEMS_DIR/<id>.html exists
PoemExists(id) == id \in WritingIds /\ poems[id] # "absent"

\* _parse_og_content(poem_id) is not None
Parsed(id) == PoemExists(id)

\* api_save: a writing is saved under an id not used before (the id hashes
\* the time of the request), with or without alternative words to cycle
ApiSave ==
    /\ \E id \in WritingIds, kind \in {"plain", "cycling"} :
           /\ poems[id] = "absent"
           /\ id \notin deleted
           /\ poems' = [poems EXCEPT ![id] = kind]
           /\ resp' = [op |-> "save", id |-> id, status |-> 200]
    /\ UNCHANGED <<coreVars, besidesWritings, og_cache, deleted>>

\* GET /p/<poem_id>
ViewPoem ==
    /\ \E id \in RequestIds :
           resp' = [op |-> "view", id |-> id,
                    status |-> IF PoemExists(id) THEN 200 ELSE 404]
    /\ UNCHANGED <<coreVars, besidesWritings, poems, og_cache, deleted>>

\* GET /og/<poem_id>.png; pillow is false when Pillow cannot be imported
OgImage ==
    /\ \E id \in RequestIds, pillow \in BOOLEAN :
           resp' = [op |-> "og_png", id |-> id,
                    status |-> IF ~Parsed(id) THEN 404
                               ELSE IF pillow THEN 200 ELSE 500]
    /\ UNCHANGED <<coreVars, besidesWritings, poems, og_cache, deleted>>

\* GET /og/<poem_id>.gif: the cached file if there is one; else 404 for an
\* unknown writing, a redirect to the png for a writing without cycling
\* words or without Pillow, else the gif, rendered and written to the cache
OgImageGif ==
    /\ \E id \in RequestIds, pillow \in BOOLEAN :
           IF id \in og_cache
           THEN /\ resp' = [op |-> "og_gif", id |-> id, status |-> 200]
                /\ UNCHANGED og_cache
           ELSE IF ~Parsed(id)
           THEN /\ resp' = [op |-> "og_gif", id |-> id, status |-> 404]
                /\ UNCHANGED og_cache
           ELSE IF poems[id] # "cycling" \/ ~pillow
           THEN /\ resp' = [op |-> "og_gif", id |-> id, status |-> 302]
                /\ UNCHANGED og_cache
           ELSE /\ resp' = [op |-> "og_gif", id |-> id, status |-> 200]
                /\ og_cache' = og_cache \cup {id}
    /\ UNCHANGED <<coreVars, besidesWritings, poems, deleted>>

\* DELETE /api/delete/<writing_id>
ApiDelete ==
    /\ \E id \in RequestIds, authenticated \in BOOLEAN :
           IF ~authenticated
           THEN /\ resp' = [op |-> "delete", id |-> id, status |-> 403]
                /\ UNCHANGED <<poems, deleted>>
           ELSE IF id \notin WritingIds
           THEN /\ resp' = [op |-> "delete", id |-> id, status |-> 400]
                /\ UNCHANGED <<poems, deleted>>
           ELSE IF ~PoemExists(id)
           THEN /\ resp' = [op |-> "delete", id |-> id, status |-> 404]
                /\ UNCHANGED <<poems, deleted>>
           ELSE /\ poems' = [poems EXCEPT ![id] = "absent"]
                /\ deleted' = deleted \cup {id}
                /\ resp' = [op |-> "delete", id |-> id, status |-> 200]
    /\ UNCHANGED <<coreVars, besidesWritings, og_cache>>

NextWritings == ApiSave \/ ViewPoem \/ OgImage \/ OgImageGif \/ ApiDelete

SpecWritings == Init /\ [][NextWritings]_vars

(***************************************************************************)
(* The local poem server: start_server (web.py), called by the share       *)
(* workers of the TUI (app.py _do_share), which run as threads             *)
(***************************************************************************)
\* the pages shared
Pages == {"poem one", "poem two"}

\* the first port of range(port, port + 100) that HTTPServer can bind,
\* counted from port: the ports below it are held by the servers created
FreePort == Cardinality(servers)

\* the URL start_server returns, named by the port it reads from _server
Url(srv) == [port |-> srv.val]

\* a share worker calls start_server(page): "_current_html = html_content"
StartServerCall(t) ==
    /\ sharePc[t] = "idle"
    /\ \E page \in Pages :
           /\ shareLoc' = [shareLoc EXCEPT ![t] = page]
           /\ current_html' = page
    /\ sharePc' = [sharePc EXCEPT ![t] = "test"]
    /\ shareRet' = [op |-> "none"]
    /\ UNCHANGED <<coreVars, besidesShare, server, servers, serving>>

\* "if _server is not None: return f'http://localhost:{...}/'"
StartServerTest(t) ==
    /\ sharePc[t] = "test"
    /\ IF server # None
       THEN /\ shareRet' = [op |-> "start_server", url |-> Url(server),
                            created |-> None, html |-> shareLoc[t]]
            /\ sharePc' = [sharePc EXCEPT ![t] = "idle"]
       ELSE /\ shareRet' = [op |-> "none"]
            /\ sharePc' = [sharePc EXCEPT ![t] = "bind"]
    /\ UNCHANGED <<coreVars, besidesShare, server, current_html, servers, serving,
                   shareLoc>>

\* "_server = HTTPServer(('', p), _PoemHandler)" on the first port that binds
StartServerBind(t) ==
    /\ sharePc[t] = "bind"
    /\ servers' = servers \cup {FreePort}
    /\ server' = Some(FreePort)
    /\ sharePc' = [sharePc EXCEPT ![t] = "thread"]
    /\ shareRet' = [op |-> "none"]
    /\ UNCHANGED <<coreVars, besidesShare, current_html, serving, shareLoc>>

\* "_server_thread = threading.Thread(target=_server.serve_forever)" and
\* its start: _server is the global
StartServerThread(t) ==
    /\ sharePc[t] = "thread"
    /\ serving' = serving \cup {server.val}
    /\ sharePc' = [sharePc EXCEPT ![t] = "return"]
    /\ shareRet' = [op |-> "none"]
    /\ UNCHANGED <<coreVars, besidesShare, server, current_html, servers, shareLoc>>

\* "return f'http://localhost:{_server.server_address[1]}/'"
StartServerReturn(t) ==
    /\ sharePc[t] = "return"
    /\ shareRet' = [op |-> "start_server", url |-> Url(server),
                    created |-> Some(t), html |-> shareLoc[t]]
    /\ sharePc' = [sharePc EXCEPT ![t] = "idle"]
    /\ UNCHANGED <<coreVars, besidesShare, server, current_html, servers, serving,
                   shareLoc>>

NextShare ==
    \E t \in Threads :
        \/ StartServerCall(t)
        \/ StartServerTest(t)
        \/ StartServerBind(t)
        \/ StartServerThread(t)
        \/ StartServerReturn(t)

SpecShare == Init /\ [][NextShare]_vars

(***************************************************************************)
(* The terminal application (app.py).  Key actions, timer ticks and the    *)
(* handlers of worker events run one at a time on the event loop; a worker *)
(* is a thread, and its result is applied when its completion is handled.  *)
(* The side panels and the morphed dictionary they show are left out.      *)
(***************************************************************************)
\* top_n of morph_word and morph_words when the caller passes none
DEFAULT_TOP_N == 8

\* the batch workers and the add workers the application starts in a run
MaxBatches == 1

MaxAdds == 1

\* the lines the user types, and the lines poem.txt may hold
PoemTexts == {<<w_tools, w_xyzzy>>, <<w_hot, w_tools>>}

\* the stripped values of the vibe input: None when it is empty
VibeValues == {None, Some(w_joy)}

\* Token(text=m.group(), is_word=True).  origin is no field of the program:
\* it holds the original of the MorphResult the candidates were taken from.
NewToken(text) ==
    [text |-> text, tagged |-> FALSE, candidates |-> <<>>, cycle_index |-> 0,
     locked |-> FALSE, origin |-> None]

\* _tokenize_line, the word tokens
Tokenize(text) == [i \in 1..Len(text) |-> NewToken(text[i])]

\* self._poem_tokens after _ensure_tokenized
EnsuredTokens == IF editor # tokenized_text THEN Tokenize(editor) ELSE poem_tokens

\* Token.display; an index out of range (IndexError) shows as the empty word
Display(t) ==
    IF t.tagged /\ t.candidates # <<>>
    THEN IF t.cycle_index < Len(t.candidates)
         THEN t.candidates[t.cycle_index + 1]
         ELSE <<>>
    ELSE t.text

\* _rebuild_text and _final_text: the words shown
TextOf(tokens) == [i \in 1..Len(tokens) |-> Display(tokens[i])]

\* _tagged_words: the positions of the tagged tokens, in order
RECURSIVE TaggedFrom(_, _)
TaggedFrom(tokens, i) ==
    IF i > Len(tokens) THEN <<>>
    ELSE (IF tokens[i].tagged THEN <<i>> ELSE <<>>) \o TaggedFrom(tokens, i + 1)

TaggedWords(tokens) == TaggedFrom(tokens, 1)

\* _line_context
LineContext(tokens) == [i \in 1..Len(tokens) |-> Lower(tokens[i].text)]

\* "still_cycling": a tagged token that is not locked and has candidates
StillCycling(tokens) ==
    \E i \in 1..Len(tokens) :
        tokens[i].tagged /\ ~tokens[i].locked /\ tokens[i].candidates # <<>>

\* [c.word for c in result.candidates]
CandidateWords(cs) == [j \in 1..Len(cs) |-> cs[j].word]

\* a token takes the candidates of a MorphResult
WithCandidates(token, result) ==
    [token EXCEPT !.candidates = CandidateWords(result.candidates),
                  !.cycle_index = 0, !.locked = FALSE,
                  !.origin = Some(result.original)]

\* the status action_start_cycling shows before the model is ready, without
\* the ellipsis character (U+2026) that ends it
ModelStillLoading == "Model still loading"

\* "if not self._model_ready" of action_start_cycling
StartBlockedNever(ready) == FALSE

StartBlocked(ready) == ~ready

\* the next index of a cycling token
NextIndexNoWrap(cycle_index, n) == cycle_index + 1

NextIndex(cycle_index, n) == (cycle_index + 1) % n

\* the morph_words call of a batch worker, the morph_word call of an add worker
BatchOf(w) ==
    [words |-> w.words, target_vibe |-> w.vibe, source_vibe |-> None,
     top_n |-> DEFAULT_TOP_N, contexts |-> Some(w.contexts), taggerUp |-> TRUE,
     inflectorUp |-> TRUE, hashSeed |-> hashSeed]

AddCallOf(w) ==
    [word |-> w.word, target_vibe |-> w.vibe, source_vibe |-> None,
     top_n |-> DEFAULT_TOP_N, context |-> Some(w.context), taggerUp |-> TRUE,
     inflectorUp |-> TRUE, hashSeed |-> hashSeed]

\* what a morph worker does to ghostwriter.morph: load_model when no model
\* is loaded, the tagger and WordNet helpers of its calls
WorkerMorphState(calls) ==
    /\ IF MODEL = None
       THEN MODEL' = Some(MODEL_NAME) /\ loads' = loads + 1
       ELSE UNCHANGED <<MODEL, loads>>
    /\ NLTK_READY' \in NltkReadyAfter(NLTK_READY, calls)
    /\ COARSE_TO_WN' = CoarseToWnAfter(COARSE_TO_WN, calls)
    /\ UNCHANGED <<EMOJI_INDEX, EMOJI_CHARS, builds, pc, op, loc, ret, wordRet,
                   hashSeed>>

\* _finish_cycling
FinishCycling(tokens) ==
    /\ cycling' = FALSE
    /\ editor' = TextOf(tokens)
    /\ poem_tokens' = <<>>
    /\ tokenized_text' = <<>>
    /\ status' = "Frozen"

\* on_mount: the _load_model worker is started
OnMount ==
    /\ loadWorker = "none"
    /\ loadWorker' = "running"
    /\ status' = "Loading embeddings (first run)"
    /\ UNCHANGED <<coreVars, besidesTui, app_model_ready, editor, poem_tokens,
                   tokenized_text, cycling, batchWorkers, addWorkers, started>>

\* _load_model: load_model() returns
LoadWorkerLoads ==
    /\ loadWorker = "running"
    /\ IF MODEL = None
       THEN MODEL' = Some(MODEL_NAME) /\ loads' = loads + 1
       ELSE UNCHANGED <<MODEL, loads>>
    /\ loadWorker' = "loaded"
    /\ UNCHANGED <<EMOJI_INDEX, EMOJI_CHARS, builds, pc, op, loc, ret, wordRet,
                   libVars, besidesTui, app_model_ready, editor, poem_tokens,
                   tokenized_text, cycling, batchWorkers, addWorkers, started,
                   status>>

\* _load_model: load_model() raises, and the worker ends in state ERROR
LoadWorkerFails ==
    /\ loadWorker = "running"
    /\ loadWorker' = "error"
    /\ status' = "Model load failed"
    /\ UNCHANGED <<coreVars, besidesTui, app_model_ready, editor, poem_tokens,
                   tokenized_text, cycling, batchWorkers, addWorkers, started>>

\* _load_model: "self._model_ready = True", and the worker ends in SUCCESS
LoadWorkerReady ==
    /\ loadWorker = "loaded"
    /\ app_model_ready' = TRUE
    /\ loadWorker' = "success"
    /\ status' = "Ready"
    /\ UNCHANGED <<coreVars, besidesTui, editor, poem_tokens, tokenized_text,
                   cycling, batchWorkers, addWorkers, started>>

\* the user replaces the text of the editor, which is read-only while cycling
EditText ==
    /\ loadWorker # "none"
    /\ ~cycling
    /\ \E text \in PoemTexts : editor' = text
    /\ UNCHANGED <<coreVars, besidesTui, app_model_ready, loadWorker, poem_tokens,
                   tokenized_text, cycling, batchWorkers, addWorkers, started,
                   status>>

\* action_tag_word (F2) with the cursor on word number cursor, or on no word
\* (0), and the vibe input holding vibe
ActionTagWord ==
    /\ loadWorker # "none"
    /\ \E cursor \in 0..Len(IF cycling THEN poem_tokens ELSE EnsuredTokens),
          vibe \in VibeValues :
         IF cycling
         THEN IF cursor = 0
              THEN /\ status' = "Place cursor on a word"
                   /\ UNCHANGED <<editor, poem_tokens, tokenized_text, cycling,
                                  addWorkers, started>>
              ELSE IF poem_tokens[cursor].tagged
              THEN LET token == poem_tokens[cursor]
                       current == IF token.candidates # <<>>
                                  THEN token.candidates[token.cycle_index + 1]
                                  ELSE token.text
                       tokens == [poem_tokens EXCEPT ![cursor] = NewToken(current)]
                   IN  /\ IF ~StillCycling(tokens)
                          THEN FinishCycling(tokens)
                          ELSE /\ poem_tokens' = tokens
                               /\ editor' = TextOf(tokens)
                               /\ status' = "Committed"
                               /\ UNCHANGED <<tokenized_text, cycling>>
                       /\ UNCHANGED <<addWorkers, started>>
              ELSE /\ poem_tokens' = [poem_tokens EXCEPT ![cursor].tagged = TRUE]
                   /\ IF vibe.some
                      THEN /\ started.add < MaxAdds
                           /\ addWorkers' = addWorkers \cup
                                  {[id |-> started.add + 1,
                                    word |-> Lower(poem_tokens[cursor].text),
                                    vibe |-> vibe.val,
                                    context |-> LineContext(poem_tokens)]}
                           /\ started' = [started EXCEPT !.add = @ + 1]
                           /\ status' = "Tagged, computing morphs"
                      ELSE UNCHANGED <<addWorkers, started, status>>
                   /\ UNCHANGED <<editor, tokenized_text, cycling>>
         ELSE /\ tokenized_text' = editor
              /\ IF cursor = 0
                 THEN /\ poem_tokens' = EnsuredTokens
                      /\ status' = "Place cursor on a word"
                 ELSE /\ poem_tokens' = [EnsuredTokens EXCEPT
                                            ![cursor].tagged = ~@]
                      /\ status' = IF EnsuredTokens[cursor].tagged
                                   THEN "Untagged" ELSE "Tagged"
              /\ UNCHANGED <<editor, cycling, addWorkers, started>>
    /\ UNCHANGED <<coreVars, besidesTui, app_model_ready, loadWorker, batchWorkers>>

\* action_start_cycling (F5) with the vibe input holding vibe
ActionStartCycling ==
    /\ loadWorker # "none"
    /\ ~cycling
    /\ \E vibe \in VibeValues :
         IF StartBlocked(app_model_ready)
         THEN /\ status' = ModelStillLoading
              /\ UNCHANGED <<poem_tokens, tokenized_text, batchWorkers, started>>
         ELSE IF ~vibe.some
         THEN /\ status' = "Enter a vibe word first"
              /\ UNCHANGED <<poem_tokens, tokenized_text, batchWorkers, started>>
         ELSE /\ poem_tokens' = EnsuredTokens
              /\ tokenized_text' = editor
              /\ IF TaggedWords(EnsuredTokens) = <<>>
                 THEN /\ status' = "Tag some words first (F2)"
                      /\ UNCHANGED <<batchWorkers, started>>
                 ELSE LET tagged == TaggedWords(EnsuredTokens)
                      IN  /\ started.batch < MaxBatches
                          /\ batchWorkers' = batchWorkers \cup
                                 {[id |-> started.batch + 1,
                                   words |-> [k \in 1..Len(tagged) |->
                                                 Lower(EnsuredTokens[tagged[k]].text)],
                                   vibe |-> vibe.val,
                                   contexts |-> [k \in 1..Len(tagged) |->
                                                    LineContext(EnsuredTokens)]]}
                          /\ started' = [started EXCEPT !.batch = @ + 1]
                          /\ status' = "Computing morphs"
    /\ UNCHANGED <<coreVars, besidesTui, app_model_ready, loadWorker, editor, cycling,
                   addWorkers>>

\* a _run_batch_morph worker runs morph_words, and _batch_morph_done handles
\* its end
BatchMorphDone ==
    \E w \in batchWorkers :
        /\ batchWorkers' = batchWorkers \ {w}
        /\ WorkerMorphState(BatchCalls(BatchOf(w)))
        /\ \E o \in MorphWords(BatchOf(w)) :
             IF o.raised
             THEN /\ status' = "Morph error"
                  /\ UNCHANGED <<editor, poem_tokens, cycling>>
             ELSE LET tagged == TaggedWords(poem_tokens)
                      n == ZipLen(tagged, o.results)
                      given == [i \in 1..Len(poem_tokens) |->
                                   IF \E k \in 1..n : tagged[k] = i
                                   THEN WithCandidates(poem_tokens[i],
                                            o.results[CHOOSE k \in 1..n : tagged[k] = i])
                                   ELSE poem_tokens[i]]
                      tokens == [i \in 1..Len(poem_tokens) |->
                                    IF given[i].tagged /\ given[i].candidates = <<>>
                                    THEN [given[i] EXCEPT !.tagged = FALSE]
                                    ELSE given[i]]
                  IN  /\ poem_tokens' = tokens
                      /\ IF \E i \in 1..Len(tokens) :
                                poem_tokens[i].tagged /\ tokens[i].candidates # <<>>
                         THEN /\ cycling' = TRUE
                              /\ editor' = TextOf(tokens)
                              /\ status' = "Cycling"
                         ELSE /\ status' = "No candidates found for any tagged word"
                              /\ UNCHANGED <<editor, cycling>>
        /\ UNCHANGED <<besidesTui, app_model_ready, loadWorker, tokenized_text,
                       addWorkers, started>>

\* the first token that is tagged, has no candidates and reads as the word
AddTarget(tokens, word) ==
    LET fits == {i \in 1..Len(tokens) :
                    /\ tokens[i].tagged
                    /\ tokens[i].candidates = <<>>
                    /\ Lower(tokens[i].text) = word}
    IN  IF fits = {} THEN 0 ELSE CHOOSE i \in fits : \A j \in fits : i <= j

\* a _run_add_morph worker runs morph_word, and _add_morph_done handles its end
AddMorphDone ==
    \E w \in addWorkers :
        /\ addWorkers' = addWorkers \ {w}
        /\ WorkerMorphState({AddCallOf(w)})
        /\ \E o \in MorphWord(AddCallOf(w)) :
             IF o.raised
             THEN /\ status' = "Morph error"
                  /\ UNCHANGED <<editor, poem_tokens>>
             ELSE LET at == AddTarget(poem_tokens, o.result.original)
                      given == WithCandidates(poem_tokens[at], o.result)
                      tokens == IF at = 0 THEN poem_tokens
                                ELSE [poem_tokens EXCEPT ![at] =
                                         IF given.candidates = <<>>
                                         THEN [given EXCEPT !.tagged = FALSE]
                                         ELSE given]
                  IN  /\ poem_tokens' = tokens
                      /\ status' = IF at = 0 THEN status
                                   ELSE IF tokens[at].candidates = <<>>
                                   THEN "No candidates for"
                                   ELSE "Now cycling"
                      /\ IF cycling THEN editor' = TextOf(tokens)
                         ELSE UNCHANGED editor
        /\ UNCHANGED <<besidesTui, app_model_ready, loadWorker, tokenized_text,
                       cycling, batchWorkers, started>>

\* _cycle_tick: the timer runs while the application cycles
CycleTick ==
    /\ cycling
    /\ LET tokens == [i \in 1..Len(poem_tokens) |->
                         IF /\ poem_tokens[i].tagged
                            /\ ~poem_tokens[i].locked
                            /\ poem_tokens[i].candidates # <<>>
                         THEN [poem_tokens[i] EXCEPT !.cycle_index =
                                  NextIndex(@, Len(poem_tokens[i].candidates))]
                         ELSE poem_tokens[i]]
       IN  /\ poem_tokens' = tokens
           /\ IF tokens # poem_tokens THEN editor' = TextOf(tokens)
              ELSE UNCHANGED editor
    /\ UNCHANGED <<coreVars, besidesTui, app_model_ready, loadWorker, tokenized_text,
                   cycling, batchWorkers, addWorkers, started, status>>

\* action_lock_word (F7) with the cursor on word number cursor, or on none
ActionLockWord ==
    /\ cycling
    /\ \E cursor \in 0..Len(poem_tokens) :
         IF cursor = 0 \/ ~poem_tokens[cursor].tagged \/ poem_tokens[cursor].locked
         THEN /\ status' = "Place cursor on a cycling word"
              /\ UNCHANGED <<editor, poem_tokens, tokenized_text, cycling>>
         ELSE LET tokens == [poem_tokens EXCEPT ![cursor].locked = TRUE]
              IN  IF ~StillCycling(tokens)
                  THEN FinishCycling(tokens)
                  ELSE /\ poem_tokens' = tokens
                       /\ status' = "Locked"
                       /\ UNCHANGED <<editor, tokenized_text, cycling>>
    /\ UNCHANGED <<coreVars, besidesTui, app_model_ready, loadWorker, batchWorkers,
                   addWorkers, started>>

\* action_freeze_all (F6), and action_stop_cycling (Escape), which calls it
ActionFreezeAll ==
    /\ cycling
    /\ FinishCycling([i \in 1..Len(poem_tokens) |->
                         IF /\ poem_tokens[i].tagged
                            /\ ~poem_tokens[i].locked
                            /\ poem_tokens[i].candidates # <<>>
                         THEN [poem_tokens[i] EXCEPT !.locked = TRUE]
                         ELSE poem_tokens[i]])
    /\ UNCHANGED <<coreVars, besidesTui, app_model_ready, loadWorker, batchWorkers,
                   addWorkers, started>>

\* action_load_poem (ctrl+o) with poem.txt absent or holding a line
ActionLoadPoem ==
    /\ loadWorker # "none"
    /\ \E file \in {None} \cup {Some(text) : text \in PoemTexts} :
         IF ~file.some
         THEN /\ status' = "No poem.txt found in current directory"
              /\ UNCHANGED <<editor, poem_tokens, tokenized_text>>
         ELSE /\ editor' = file.val
              /\ poem_tokens' = <<>>
              /\ tokenized_text' = <<>>
              /\ status' = "Loaded poem.txt"
    /\ UNCHANGED <<coreVars, besidesTui, app_model_ready, loadWorker, cycling,
                   batchWorkers, addWorkers, started>>

NextTui ==
    \/ OnMount
    \/ LoadWorkerLoads
    \/ LoadWorkerFails
    \/ LoadWorkerReady
    \/ EditText
    \/ ActionTagWord
    \/ ActionStartCycling
    \/ BatchMorphDone
    \/ AddMorphDone
    \/ CycleTick
    \/ ActionLockWord
    \/ ActionFreezeAll
    \/ ActionLoadPoem

SpecTui == Init /\ [][NextTui]_vars

(***************************************************************************)
(* C1.  However many threads call load_model while no model is cached,     *)
(* api.load runs at most once in the process.                              *)
(***************************************************************************)
C1_LoadAtMostOnce == loads <= 1

(***************************************************************************)
(* C2.  Under any interleaving of morph_emoji calls the emoji index is     *)
(* built exactly once, at the first call: never twice, and once as soon as *)
(* a call has returned from the body.                                      *)
(***************************************************************************)
C2_IndexBuiltOnce ==
    /\ builds <= 1
    /\ EmojiReturned => builds = 1

(***************************************************************************)
(* C3.  When the lowercased word or the lowercased target_vibe is not in   *)
(* the vocabulary, morph_word returns a MorphResult with no candidates,    *)
(* raises nothing, and has consulted neither the tagger nor the dictionary *)
(* nor the nearest-neighbour query.                                        *)
(***************************************************************************)
C3_VocabMissReturnsEmpty ==
    (/\ WordReturned
     /\ \/ Lower(wordRet.call.word) \notin Vocab
        \/ Lower(wordRet.call.target_vibe) \notin Vocab)
    => /\ ~wordRet.out.raised
       /\ wordRet.out.result.candidates = <<>>
       /\ wordRet.out.consulted = {}

\* a call with a known word and an unknown vibe has returned
C3_Witness ==
    /\ WordReturned
    /\ Lower(wordRet.call.word) \in Vocab
    /\ Lower(wordRet.call.target_vibe) \notin Vocab
    /\ wordRet.out.result.candidates = <<>>

(***************************************************************************)
(* C4.  For every top_n >= 0, 0 included, morph_word returns at most       *)
(* top_n candidates.                                                       *)
(***************************************************************************)
C4_AtMostTopN ==
    WordReturned => Len(wordRet.out.result.candidates) <= wordRet.call.top_n

(***************************************************************************)
(* C5.  morph_words returns as many results as it was given words, the     *)
(* i-th result's original being the i-th word, for every list of words and *)
(* every contexts argument, omitted or supplied.                           *)
(***************************************************************************)
C5_OneResultPerWord ==
    WordsReturned =>
        /\ ~wordRet.out.raised
        /\ Len(wordRet.out.results) = Len(wordRet.call.words)
        /\ \A i \in 1..Len(wordRet.call.words) :
               wordRet.out.results[i].original = wordRet.call.words[i]

(***************************************************************************)
(* C6.  No candidate morph_word returns has a lowercased surface form      *)
(* equal to the lowercased input word.                                     *)
(***************************************************************************)
C6_NeverTheOriginal ==
    WordReturned =>
        \A i \in Positions(wordRet.out.result) :
            Lower(wordRet.out.result.candidates[i].word) # Lower(wordRet.call.word)

\* a call has returned candidates although a scored base form inflects back
\* to the input word
C6_Witness ==
    /\ WordReturned
    /\ ~wordRet.out.raised
    /\ wordRet.out.consulted # {}
    /\ Len(wordRet.out.result.candidates) > 0
    /\ \E x \in CallScored(wordRet.call) :
           CallSurface(wordRet.call, x.w) = Lower(wordRet.call.word)

(***************************************************************************)
(* C7.  The candidates morph_word returns have pairwise different          *)
(* lowercased surface forms, and a returned candidate scores at least as   *)
(* high as every scored base form that inflects to its surface form.       *)
(***************************************************************************)
C7_NoDuplicateForms ==
    (WordReturned /\ wordRet.out.consulted # {}) =>
        LET cands == wordRet.out.result.candidates
        IN  /\ \A i, j \in Positions(wordRet.out.result) :
                   i # j => Lower(cands[i].word) # Lower(cands[j].word)
            /\ \A i \in Positions(wordRet.out.result) :
                   \A x \in CallScored(wordRet.call) :
                       CallSurface(wordRet.call, x.w) = Lower(cands[i].word)
                           => Round4(x.s) <= cands[i].score

\* a call has returned a candidate that two scored base forms of different
\* score inflect to
C7_Witness ==
    /\ WordReturned
    /\ wordRet.out.consulted # {}
    /\ \E i \in Positions(wordRet.out.result) :
           \E x, y \in CallScored(wordRet.call) :
               /\ x.w # y.w
               /\ x.s > y.s
               /\ wordRet.out.result.candidates[i].score = Round4(x.s)
               /\ CallSurface(wordRet.call, x.w)
                      = Lower(wordRet.out.result.candidates[i].word)
               /\ CallSurface(wordRet.call, y.w)
                      = Lower(wordRet.out.result.candidates[i].word)

(***************************************************************************)
(* C8.  The candidates morph_word returns are in order of non-increasing   *)
(* score.                                                                  *)
(***************************************************************************)
C8_ScoresNonIncreasing ==
    WordReturned =>
        \A i, j \in Positions(wordRet.out.result) :
            i < j => wordRet.out.result.candidates[i].score
                         >= wordRet.out.result.candidates[j].score

\* a call has returned three candidates of falling score, after a skip in
\* the loop and with a score that rounding changed
C8_Witness ==
    /\ WordReturned
    /\ wordRet.out.consulted # {}
    /\ Len(wordRet.out.result.candidates) >= 3
    /\ wordRet.out.result.candidates[1].score > wordRet.out.result.candidates[3].score
    /\ \E x \in CallScored(wordRet.call) :
           \/ CallSurface(wordRet.call, x.w) = Lower(wordRet.call.word)
           \/ \E y \in CallScored(wordRet.call) :
                  x # y /\ CallSurface(wordRet.call, x.w) = CallSurface(wordRet.call, y.w)
    /\ \E x \in CallScored(wordRet.call) : Round4(x.s) # x.s

(***************************************************************************)
(* C9.  The candidates morph_emoji returns never contain the input glyph.  *)
(***************************************************************************)
C9_NeverTheInputGlyph ==
    EmojiReturned =>
        \A i \in Positions(ret.result) : ret.result.candidates[i].word # ret.emoji

\* morph_emoji has returned candidates for an indexed glyph
C9_Witness ==
    /\ EmojiReturned
    /\ ret.emoji \in DOMAIN BuildEmojiIndex.index
    /\ Len(ret.result.candidates) > 0

(***************************************************************************)
(* C10.  When the glyph has no entry in the emoji index, or the lowercased *)
(* target_vibe is not in the vocabulary, morph_emoji returns a MorphResult *)
(* with no candidates and raises nothing.                                  *)
(***************************************************************************)
C10_EmojiMissReturnsEmpty ==
    (/\ EmojiReturned
     /\ \/ ret.emoji \notin DOMAIN BuildEmojiIndex.index
        \/ Lower(ret.target_vibe) \notin Vocab)
    => /\ ~ret.raised
       /\ ret.result.candidates = <<>>

\* morph_emoji has returned for a glyph without entry, reading _EMOJI_CHARS
\* while it was still None
C10_Witness ==
    /\ EmojiReturned
    /\ ~ret.raised
    /\ ret.emoji \notin DOMAIN BuildEmojiIndex.index
    /\ ~ret.listed

CallNeighbours(a) ==
    LET low == Lower(a.word)
        vibe_low == Lower(a.target_vibe)
        negative == IF SourceUsable(a.source_vibe)
                    THEN <<Lower(a.source_vibe.val)>> ELSE <<>>
        raw == MostSimilar(<<low, vibe_low>>, negative, a.top_n * 5)
    IN  {cw \in {Lower(raw[i]) : i \in 1..Len(raw)} :
            /\ cw \notin {low, vibe_low}
            /\ WordReMatch(cw)
            /\ InVocab(cw)
            /\ Norm(Vec(cw)) # 0}

\* C12: when the tagger raises, _pos_tag_word returns no tag, and morph_word
\* with both words in the vocabulary returns without error: WordNet is not
\* asked for synonyms, every candidate is a raw neighbour in its base form
\* (the lemma is the lowercased input, nothing is re-inflected), and no
\* neighbour is filtered by POS: one is missing only when top_n is reached.
C12_TaggerFailureDegrades ==
    (/\ wordRet.op = "morph_word"
     /\ ~wordRet.call.taggerUp
     /\ ~VocabMiss(Lower(wordRet.call.word), Lower(wordRet.call.target_vibe)))
        => LET a == wordRet.call
               cands == wordRet.out.result.candidates
           IN  /\ CallTag(a) = NoTag
               /\ ~wordRet.out.raised
               /\ "wordnet" \notin wordRet.out.consulted
               /\ \A i \in 1..Len(cands) : cands[i].word \in CallNeighbours(a)
               /\ Len(cands) < a.top_n
                      => \A cw \in CallNeighbours(a) :
                             \E i \in 1..Len(cands) : cands[i].word = cw

\* morph_word returned with the tagger down and a candidate that the POS
\* filter would have dropped and that the inflector would have changed
C12_Witness ==
    /\ wordRet.op = "morph_word"
    /\ ~wordRet.call.taggerUp
    /\ wordRet.call.inflectorUp
    /\ ~wordRet.out.raised
    /\ \E i \in Positions(wordRet.out.result) :
           LET w == wordRet.out.result.candidates[i].word
               tag == IsoTag(Lower(wordRet.call.word))
           IN  /\ CoarsePos(tag) # NoPos
               /\ CoarsePos(IsoTag(w)) # CoarsePos(tag)
               /\ Inflect(w, tag, TRUE) # w

\* the places of a context whose entry equals word case-insensitively
Matches(word, context) ==
    IF context.some
    THEN {i \in 1..Len(context.val) : Lower(context.val[i]) = Lower(word)}
    ELSE {}

\* C13: with the tagger up, _pos_tag_word(word, context) returns the tag the
\* tagging of the whole context gives the first entry equal to word
\* case-insensitively; with no context, an empty one or one without such an
\* entry, it returns the tag of word tagged alone.
C13_FirstMatchOrIsolated ==
    (wordRet.op = "pos_tag_word" /\ wordRet.taggerUp)
        => LET at == Matches(wordRet.word, wordRet.context)
           IN  IF at = {}
               THEN wordRet.tag = IsoTag(wordRet.word)
               ELSE \E i \in at :
                       /\ \A j \in at : i <= j
                       /\ wordRet.tag = SeqTag(wordRet.context.val, i)

\* _pos_tag_word returned the tag of the first of two matches that the
\* sequence tags differently, which is not the tag of the word alone
C13_Witness ==
    /\ wordRet.op = "pos_tag_word"
    /\ wordRet.taggerUp
    /\ \E i, j \in Matches(wordRet.word, wordRet.context) :
           /\ i < j
           /\ SeqTag(wordRet.context.val, i) # SeqTag(wordRet.context.val, j)
           /\ wordRet.tag = SeqTag(wordRet.context.val, i)
    /\ wordRet.tag # IsoTag(wordRet.word)

\* C18: is_emoji(text) is true exactly when text is one character whose code
\* point lies in one of the ranges of _EMOJI_RANGES, the ranges scanned to
\* build the emoji index.
C18_IsEmojiIffInRanges ==
    wordRet.op = "is_emoji"
        => (wordRet.is <=>
               /\ Len(wordRet.text) = 1
               /\ \E r \in DOMAIN EMOJI_RANGES :
                      /\ EMOJI_RANGES[r][1] <= wordRet.text[1]
                      /\ wordRet.text[1] <= EMOJI_RANGES[r][2])

\* C14: when api.load fails, load_model raises to its caller, and morph_word,
\* morph_words and morph_emoji called without a model raise too: a call that
\* returns while no model is loaded has raised out of the load and carries
\* no result, empty or otherwise.
C14_LoadFailurePropagates ==
    (ret.op \in {"load_model", "morph_word", "morph_words", "morph_emoji"}
         /\ MODEL = None)
        => /\ ret.raised
           /\ ret.stage = "load_model"
           /\ DOMAIN ret = {"op", "stage", "raised"}

\* morph_word, called without a model, raised out of the load
C14_Witness ==
    /\ ret.op = "morph_word"
    /\ ret.stage = "load_model"
    /\ ret.raised
    /\ MODEL = None

\* what the caller sees of the outcomes of call a: whether it raised, and the
\* candidate list
CallLists(a) ==
    {[raised |-> o.raised, candidates |-> o.result.candidates] : o \in MorphWord(a)}

\* C15: with a source_vibe that is supplied but not in the vocabulary,
\* morph_word returns exactly the candidate list of the same call without
\* source_vibe: the source is left out of the target vector and of the
\* negative list of most_similar.
C15_UnknownSourceIsDropped ==
    (/\ wordRet.op = "morph_word"
     /\ wordRet.call.source_vibe.some
     /\ ~InVocab(wordRet.call.source_vibe.val))
        => CallLists([wordRet.call EXCEPT !.source_vibe = None])
               = {[raised |-> wordRet.out.raised,
                   candidates |-> wordRet.out.result.candidates]}

\* a call with an unknown, non-empty source vibe returned candidates, and
\* the same call with a known source vibe would not return them
C15_Witness ==
    /\ wordRet.op = "morph_word"
    /\ wordRet.call.source_vibe.some
    /\ Len(wordRet.call.source_vibe.val) > 0
    /\ ~InVocab(wordRet.call.source_vibe.val)
    /\ Len(wordRet.out.result.candidates) > 1
    /\ \A o \in MorphWord([wordRet.call EXCEPT !.source_vibe = Some(w_joy)]) :
           o.result.candidates # wordRet.out.result.candidates

\* C16: every candidate morph_word returns is the (re-inflected) form of a
\* base form of the pool that is in the vocabulary and, when a coarse POS
\* was found for the input word, has a WordNet sense under that POS.
C16_CandidatesPooledAndCrossChecked ==
    (wordRet.op = "morph_word" /\ ~wordRet.out.raised)
        => LET a == wordRet.call
               coarse == CoarsePos(CallTag(a))
               cands == wordRet.out.result.candidates
               pool == Pool(a)
           IN  \A i \in 1..Len(cands) :
                   \E base \in pool :
                       /\ InVocab(base)
                       /\ coarse # NoPos => HasSynset(base, CoarseToWn(coarse))
                       /\ cands[i].word =
                              (IF CallTag(a) # NoTag
                               THEN Inflect(base, CallTag(a), a.inflectorUp)
                               ELSE base)

\* morph_word returned candidates and left out a pooled base form of the
\* vocabulary that has no sense under the coarse POS, though it scores
\* higher than the last candidate returned
C16_Witness ==
    /\ wordRet.op = "morph_word"
    /\ ~wordRet.out.raised
    /\ Len(wordRet.out.result.candidates) > 0
    /\ LET a == wordRet.call
           coarse == CoarsePos(CallTag(a))
           cands == wordRet.out.result.candidates
           target_vec == TargetVec(Lower(a.word), Lower(a.target_vibe), a.source_vibe)
       IN  /\ coarse # NoPos
           /\ \E base \in Pool(a) :
                  /\ InVocab(base)
                  /\ ~HasSynset(base, CoarseToWn(coarse))
                  /\ Norm(Vec(base)) # 0
                  /\ Round4(Sim(target_vec, base)) > cands[Len(cands)].score

\* C17: when lemminflect raises or has no form for the tag, _inflect returns
\* the base form, and morph_word returns without error with every candidate
\* a scored base form unchanged; a scored base form other than the input is
\* missing only when top_n was reached.
C17_InflectionFailureKeepsBase ==
    (/\ wordRet.op = "morph_word"
     /\ wordRet.out.consulted # {}
     /\ CallTag(wordRet.call) # NoTag)
        => LET a == wordRet.call
               bases == {s.w : s \in CallScored(a)}
               failing == {w \in bases :
                              \/ ~a.inflectorUp
                              \/ GetInflection(w, CallTag(a)) = <<>>}
               cands == wordRet.out.result.candidates
           IN  failing = bases
                   => /\ ~wordRet.out.raised
                      /\ \A w \in bases : Inflect(w, CallTag(a), a.inflectorUp) = w
                      /\ \A i \in 1..Len(cands) : cands[i].word \in bases
                      /\ Len(cands) < a.top_n
                             => \A w \in bases \ {Lower(a.word)} :
                                    \E i \in 1..Len(cands) : cands[i].word = w

\* morph_word returned, with lemminflect raising, a candidate in its base
\* form that lemminflect would have inflected
C17_Witness ==
    /\ wordRet.op = "morph_word"
    /\ wordRet.out.consulted # {}
    /\ ~wordRet.out.raised
    /\ ~wordRet.call.inflectorUp
    /\ CallTag(wordRet.call) # NoTag
    /\ \E i \in Positions(wordRet.out.result) :
           LET w == wordRet.out.result.candidates[i].word
           IN  /\ \E s \in CallScored(wordRet.call) : s.w = w
               /\ Inflect(w, CallTag(wordRet.call), TRUE) # w

\* C19: every vector stored in the emoji index has unit norm (1000 in
\* thousandths, within rounding), for every indexed glyph, one whose keyword
\* vectors average to the zero vector included.
C19_IndexVectorsUnitNorm ==
    EMOJI_INDEX.some
        => \A g \in DOMAIN EMOJI_INDEX.val :
               Abs(Norm(EMOJI_INDEX.val[g]) - 1000) <= 2

OtherGlyphs == DOMAIN BuildEmojiIndex.index \ {ret.emoji}

\* the score morph_emoji gives glyph g in the call returned, rounded as in
\* the Candidate
GlyphScore(g) ==
    Round4(EmojiScore(BuildEmojiIndex.index[g],
                      EmojiTarget(BuildEmojiIndex.index[ret.emoji],
                                  Lower(ret.target_vibe))))

\* C21: morph_emoji(glyph, vibe, top_n = n), n >= 0, returning for an
\* indexed glyph and a known vibe, returns min(n, number of other indexed
\* glyphs) candidates: distinct indexed glyphs other than the input, each
\* with its score, in non-increasing score order, none scoring less than a
\* glyph left out.
C21_TopScoringOthers ==
    (/\ EmojiReturned
     /\ ~ret.raised
     /\ ret.emoji \in DOMAIN BuildEmojiIndex.index
     /\ Lower(ret.target_vibe) \in Vocab)
        => LET cands == ret.result.candidates
               returned == {cands[i].word : i \in 1..Len(cands)}
           IN  /\ Len(cands) = (IF ret.top_n < Cardinality(OtherGlyphs)
                                THEN ret.top_n ELSE Cardinality(OtherGlyphs))
               /\ Cardinality(returned) = Len(cands)
               /\ returned \subseteq OtherGlyphs
               /\ \A i \in 1..Len(cands) : cands[i].score = GlyphScore(cands[i].word)
               /\ \A i, j \in 1..Len(cands) :
                      i < j => cands[i].score >= cands[j].score
               /\ \A g \in OtherGlyphs \ returned :
                      \A i \in 1..Len(cands) : cands[i].score >= GlyphScore(g)

\* morph_emoji returned top_n >= 1 candidates and left out an indexed glyph
\* that scores less than the last of them
C21_Witness ==
    /\ EmojiReturned
    /\ ~ret.raised
    /\ ret.emoji \in DOMAIN BuildEmojiIndex.index
    /\ ret.top_n >= 1
    /\ Len(ret.result.candidates) = ret.top_n
    /\ \E g \in OtherGlyphs :
           /\ \A i \in Positions(ret.result) : ret.result.candidates[i].word # g
           /\ GlyphScore(g) < ret.result.candidates[ret.top_n].score

\* C22: in the web server and the morph service, a handler calls a morph
\* function only after _preload has stored the model and set _model_ready;
\* until then a request that passes the key check is answered 503 "Model
\* still loading..."; api.load therefore runs at most once, in _preload.
C22_MorphOnlyAfterPreload ==
    /\ \A t \in Threads :
           handlerPc[t] \in {"load_model", "body"}
               => /\ deployment \in {"web", "service"}
                  /\ model_ready
                  /\ preloadPc = "done"
                  /\ MODEL # None
    /\ (resp.op = "morph" /\ resp.status \in {200, 500} /\ deployment # "proxy")
           => resp.ready
    /\ (resp.op = "morph" /\ resp.status # 403 /\ ~resp.ready)
           => resp.status = 503 /\ resp.body = StillLoading
    /\ loads <= 1

\* a request was answered 503 while the preload was still running, and
\* another handler is in morph_word after the preload
C22_Witness ==
    /\ resp.op = "morph"
    /\ resp.status = 503
    /\ ~resp.failed
    /\ loads = 1
    /\ \E t \in Threads : handlerPc[t] = "body"

\* C23: after the preload has failed, a morph request gets a "resources
\* unavailable" answer that differs from the "still loading" answer.
C23_FailureAnswerDistinct ==
    (resp.op = "morph" /\ resp.failed /\ resp.status # 403)
        => resp.body # StillLoading

\* C27: _get_emoji_index never hands morph_emoji an index that is set with a
\* glyph list that is still None: every morph_emoji call that got past
\* _get_emoji_index worked on the list of the keys of the index.
C27_PairNeverHalfSet ==
    EmojiReturned
        => /\ ret.listed
           /\ EMOJI_CHARS.some
           /\ {EMOJI_CHARS.val[i] : i \in 1..Len(EMOJI_CHARS.val)}
                  = DOMAIN EMOJI_INDEX.val

\* C30: once api_delete has deleted a writing, every later request for it,
\* /p/<id>, /og/<id>.png or /og/<id>.gif, is answered "Not found", whatever
\* was served for it before.
C30_DeletedAnswersNotFound ==
    (resp.op \in {"view", "og_png", "og_gif"} /\ resp.id \in deleted)
        => resp.status = 404

\* C26: start_server creates at most one HTTP server in a process: once one
\* runs, every later call, calls of concurrent share workers included, only
\* swaps the content and returns the URL of that one server.
C26_OneServerPerProcess ==
    /\ Cardinality(servers) <= 1
    /\ shareRet.op = "start_server" => servers = {shareRet.url.port}

\* the tokens of the poem, by position
TokenAt == {poem_tokens[i] : i \in 1..Len(poem_tokens)}

\* C24: when a batch morph completes, every tagged token receives the
\* candidates computed for its own word, whatever the user did (F2, loading
\* a poem) between the start of the batch and its completion: a token never
\* holds the result of another word.
C24_CandidatesOfOwnWord ==
    \A t \in TokenAt : t.origin.some => t.origin.val = Lower(t.text)

\* C25: no morph worker is started before the _load_model worker has run
\* load_model to its end and set _model_ready; F5 before that reports
\* "Model still loading..." and changes no token state.
C25_NoMorphBeforeModel ==
    /\ (batchWorkers # {} \/ addWorkers # {} \/ started.batch > 0 \/ started.add > 0
           \/ cycling)
          => /\ app_model_ready
             /\ loadWorker = "success"
             /\ MODEL # None
    /\ ~app_model_ready
          => \A t \in TokenAt : t.candidates = <<>> /\ t.cycle_index = 0 /\ ~t.locked
    /\ app_model_ready <=> loadWorker = "success"

\* F5 pressed before the model is ready, with a tagged word and a vibe at
\* hand: the status bar says so, and nothing was started
C25_Witness ==
    /\ status = ModelStillLoading
    /\ ~app_model_ready
    /\ \E t \in TokenAt : t.tagged
    /\ started.batch = 0

\* C28: whenever the application cycles, some tagged, unlocked token has
\* candidates; after any lock, untag, freeze, add-word or load-poem action,
\* cycling is off as soon as no such token remains.
C28_CyclingHasActiveToken ==
    cycling => StillCycling(poem_tokens)

\* C29: the cycle_index of every tagged token with candidates is a valid
\* index of its candidate list, in every reachable state.
C29_CycleIndexValid ==
    \A t \in TokenAt :
        (t.tagged /\ t.candidates # <<>>)
            => t.cycle_index >= 0 /\ t.cycle_index < Len(t.candidates)

\* a cycling token stands at the last of several candidates, and a locked
\* token beside it holds its index
C29_Witness ==
    /\ cycling
    /\ \E t \in TokenAt :
           /\ t.tagged /\ ~t.locked
           /\ Len(t.candidates) > 1
           /\ t.cycle_index = Len(t.candidates) - 1
    /\ \E t \in TokenAt : t.tagged /\ t.locked /\ t.candidates # <<>>

====
